---- MODULE Spec2Model ----
(***************************************************************************)
(* ValutaTradeHub: the rate acquisition and caching pipeline.              *)
(*                                                                         *)
(* parser_service (api_clients, storage, updater) fetches rates from two   *)
(* providers and persists a current snapshot and a history list;           *)
(* core/utils resolves a rate for a pair from the snapshot under a TTL and *)
(* falls back to a full update cycle.                                      *)
(*                                                                         *)
(* Encoding.  A pair key "FROM_TO" is the tuple <<FROM, TO>>.  A float is  *)
(* an exact fraction <<n, d>> in lowest terms with d > 0.  A timestamp is  *)
(* <<t>> for the integer instant t and <<>> for null / missing /           *)
(* unparsable.  A JSON object of pairs is a function whose domain is the   *)
(* set of keys present.  All timestamps taken inside one call are the      *)
(* instant at which the call is made.                                      *)
(***************************************************************************)
EXTENDS Integers, Sequences, FiniteSets, TLC

\* ------------------------------------------------------------------ bounds
\* The clock runs over 0..MaxTime.
MaxTime == 2
\* rates_ttl_seconds, in clock units.
TTL == 1
\* The history file holds at most this many records.
MaxHistory == 3
\* The number of calls made in one session of the CLI.
MaxCalls == 1
\* The number of jobs started while two writers run side by side.
MaxJobs == 2
\* The number of start() and stop() calls made on a scheduler, and the
\* number of update cycles its threads begin.
MaxOps == 4
MaxCycles == 2
\* The number of commands typed into one session of the CLI.
MaxCommands == 2

\* The snapshot file and the history file, the clock, the number of calls
\* made, the record of the last call; the temporary file rates.json.tmp and
\* the position and locals of each writer that runs alongside another.
VARIABLES rates_file, history_file, now, calls, last, tmp_file, writers

\* The HTTP request a client's _make_request is working on.
VARIABLES request

\* A RatesScheduler: its stop_event, the threads it has created, and the
\* caller of its start() and stop().
VARIABLES scheduler

\* A session of the command line: its current_user, the users file and the
\* portfolios file, the number of commands processed and the record of the
\* last one.
VARIABLES cli

vars ==
    <<rates_file, history_file, now, calls, last, tmp_file, writers, request, scheduler,
      cli>>

\* What a session of the CLI leaves alone, and what the concurrent writers
\* leave alone.
beside_session == <<tmp_file, writers, request, scheduler, cli>>

beside_writers == <<now, last, request, scheduler, cli>>

\* ------------------------------------------------------------ float values
Abs(x) == IF x < 0 THEN -x ELSE x

RECURSIVE Gcd(_, _)
Gcd(a, b) == IF b = 0 THEN a ELSE Gcd(b, a % b)

\* The float n/d (d # 0).
Rat(n, d) ==
    LET g == Gcd(Abs(n), Abs(d))
        s == IF d < 0 THEN -1 ELSE 1
    IN  <<(s * n) \div g, (s * d) \div g>>

IsZero(r) == r[1] = 0

IsPositive(r) == r[1] > 0

\* a / b for floats (b # 0).
RDiv(a, b) == Rat(a[1] * b[2], a[2] * b[1])

One == Rat(1, 1)

\* ------------------------------------------------------------------ values
Null == <<>>

At(t) == <<t>>

\* Marks a field that the JSON object does not have.
NoField == "<absent>"

\* The argument None.
None == "<None>"

PairKey(f, t) == <<f, t>>

EmptyPairs == <<>>

\* dict.update: b's entries override a's.
Update(a, b) ==
    [k \in (DOMAIN a) \cup (DOMAIN b) |-> IF k \in DOMAIN b THEN b[k] ELSE a[k]]

\* The element of a one-element set.  Only({F(x) : x \in {v}}) is F at the
\* value of v: a local assigned once and then used.
Only(S) == CHOOSE x \in S : TRUE

\* A dict built from an ordered list of (pair, rate) items; later items win.
RECURSIVE AsDict(_)
AsDict(items) ==
    IF items = <<>> THEN EmptyPairs
    ELSE LET n == Len(items)
             init == AsDict(SubSeq(items, 1, n - 1))
         IN  Update(init, [k \in {items[n].pair} |-> items[n].rate])

\* ------------------------------------------------------------ configuration
BASE_CURRENCY == "USD"

\* The tickers of CRYPTO_ID_MAP, in insertion order.
CRYPTO_ID_MAP == <<"BTC", "ETH", "SOL">>

FIAT_CURRENCIES == <<"EUR", "GBP", "RUB", "JPY", "CNY">>

\* RatesUpdater._clients, in insertion order.
Clients == <<"coingecko", "exchangerate">>

ClientSet == {Clients[i] : i \in 1..Len(Clients)}

\* ------------------------------------------------------------------- files
\* A file on disk: absent, not JSON, a snapshot object with a "pairs" object,
\* or the old cache format (pair keys at the top level, no "pairs").
AbsentFile == [kind |-> "absent", pairs |-> EmptyPairs, last_refresh |-> Null, source |-> NoField]

CorruptFile == [kind |-> "corrupt", pairs |-> EmptyPairs, last_refresh |-> Null, source |-> NoField]

SnapshotFile(pairs, last_refresh, source) ==
    [kind |-> "snapshot", pairs |-> pairs, last_refresh |-> last_refresh, source |-> source]

LegacyFile(pairs, last_refresh, source) ==
    [kind |-> "legacy", pairs |-> pairs, last_refresh |-> last_refresh, source |-> source]

\* The history file: absent, not JSON ("corrupt"), a JSON list of records,
\* the old format {"records": [...]} ("dict"), or any other JSON ("other").
HistoryFile(kind, records) == [kind |-> kind, records |-> records]

\* ----------------------------------------------------------------- storage
\* Mutant of load_current_rates: the file is handed over as it was found.
load_current_rates_AsIs(file) == file

\* RatesStorage.load_current_rates: the parsed file, or the empty snapshot.
load_current_rates(file) ==
    IF file.kind \in {"absent", "corrupt"}
    THEN SnapshotFile(EmptyPairs, Null, None)
    ELSE file

\* Mutant of existing_pairs_of: the existing entries are relabelled with the
\* source "multiple" when they are read.
existing_pairs_of_Relabelled(data) ==
    IF data.kind = "snapshot"
    THEN [k \in DOMAIN data.pairs |-> [data.pairs[k] EXCEPT !.source = "multiple"]]
    ELSE EmptyPairs

\* existing_data.get("pairs") when it is a dict, else {}.
existing_pairs_of(data) == IF data.kind = "snapshot" THEN data.pairs ELSE EmptyPairs

\* Mutant of MergesIntoExisting: any source merges into prior pairs.
MergesIntoExisting_AnySource(source, existing_pairs) ==
    DOMAIN existing_pairs # {}

\* Whether save_current_rates merges into the existing pair map.
MergesIntoExisting(source, existing_pairs) ==
    source # "multiple" /\ DOMAIN existing_pairs # {}

\* The entry save_current_rates writes for one incoming pair.
SavedEntry(rate, timestamp, source) ==
    [rate |-> rate, updated_at |-> At(timestamp), source |-> source]

\* RatesStorage.save_current_rates: the file it leaves (temp file + replace).
save_current_rates(file, rates, source, timestamp) ==
    LET existing_pairs == existing_pairs_of(load_current_rates(file))
        merging == MergesIntoExisting(source, existing_pairs)
        base == IF merging THEN existing_pairs ELSE EmptyPairs
        effective_source == IF merging THEN "multiple" ELSE source
        incoming == [k \in DOMAIN rates |-> SavedEntry(rates[k], timestamp, source)]
    IN  SnapshotFile(Update(base, incoming), At(timestamp), effective_source)

\* Mutant of load_historical_data: the records on disk are not read back.
load_historical_data_Nothing(hfile) == <<>>

\* RatesStorage._load_historical_data.
load_historical_data(hfile) ==
    IF hfile.kind \in {"list", "dict"} THEN hfile.records ELSE <<>>

\* One history record; pair.split("_") gives from_currency and to_currency.
HistoryRecord(item, source, timestamp) ==
    [id |-> <<item.pair, timestamp>>,
     from_currency |-> item.pair[1],
     to_currency |-> item.pair[2],
     rate |-> item.rate,
     timestamp |-> timestamp,
     source |-> source]

\* RatesStorage.save_historical_record.  rates is the ordered item list of the
\* fetched dict; write_fails says that building or writing the records raises.
\* Returns the exception flag, the history file left, and the count returned.
save_historical_record(hfile, rates, source, timestamp, write_fails) ==
    IF rates = <<>>
    THEN [raised |-> FALSE, file |-> hfile, count |-> 0]
    ELSE IF write_fails
    THEN [raised |-> TRUE, file |-> hfile, count |-> 0]
    ELSE LET records == [i \in 1..Len(rates) |-> HistoryRecord(rates[i], source, timestamp)]
         IN  [raised |-> FALSE,
              file |-> HistoryFile("list", load_historical_data(hfile) \o records),
              count |-> Len(rates)]

\* RatesStorage.append_history(records): the history file left and the count
\* returned.
append_history(hfile, records) ==
    IF records = <<>>
    THEN [file |-> hfile, count |-> 0]
    ELSE [file |-> HistoryFile("list", load_historical_data(hfile) \o records),
          count |-> Len(records)]

\* -------------------------------------------------------------- API clients
\* ParserConfig.MAX_RETRIES and ParserConfig.RETRY_DELAY (seconds).
MAX_RETRIES == 3

RETRY_DELAY == 2

\* _make_request before it is called: the client calling, the loop variable
\* attempt, the outcome of each HTTP attempt made so far, the seconds slept,
\* what was returned (the attempt whose JSON it is, and the JSON) or raised,
\* and what the fetch_rates that called it made of it.
NoRequest ==
    [pc |-> "none", client |-> None, attempt |-> 0, outcomes |-> <<>>, slept |-> 0,
     returned |-> 0, raised |-> "none", body |-> <<>>, fetched |-> <<>>]

\* What one HTTP attempt can do: answer with JSON; or fail as a
\* RequestException in session.get (timeout, connection error) or in
\* raise_for_status (HTTP error status); or answer with a body that is not
\* JSON.
AttemptOutcomes == {"ok", "timeout", "http_error", "bad_json"}

\* What response.json() raises on a body that is not JSON: a
\* RequestException (requests.exceptions.JSONDecodeError), or with an older
\* requests a plain ValueError, which the except clause does not catch.
BadJsonRaises == {"RequestException", "ValueError"}

\* Mutant of LastAttempt: no attempt is taken to be the last one.
LastAttempt_Never(attempt) == FALSE

\* attempt == self.config.MAX_RETRIES - 1
LastAttempt(attempt) == attempt = MAX_RETRIES - 1

\* A value in a provider's JSON answer: absent, not a number, or the number v.
Missing == [t |-> "missing", v |-> 0]

Bad == [t |-> "bad", v |-> 0]

Num(v) == [t |-> "num", v |-> v]

\* A number too large for a float (1e999, or Infinity): float() gives inf.
Huge == [t |-> "inf", v |-> 0]

\* The answers of the CoinGecko endpoint: _make_request gave up (net = "error")
\* or returned a JSON object with a price, or none, for bitcoin and ethereum
\* (and none for any other coin).
CoinGeckoAnswer(btc, eth) ==
    [net |-> "ok", data |-> [c \in {"BTC", "ETH"} |-> IF c = "BTC" THEN btc ELSE eth]]

CoinGeckoDown == [net |-> "error", data |-> [c \in {"BTC", "ETH"} |-> Missing]]

CoinGeckoResponses ==
    {CoinGeckoDown,
     CoinGeckoAnswer(Missing, Missing),
     CoinGeckoAnswer(Num(2), Missing),
     CoinGeckoAnswer(Num(0), Missing),
     CoinGeckoAnswer(Num(2), Num(2)),
     CoinGeckoAnswer(Missing, Bad)}

\* The answers of the ExchangeRate-API endpoint: conversion_rates has a value,
\* or none, for EUR (and none for any other currency).
ExchangeRateAnswer(result, eur) ==
    [net |-> "ok", result |-> result, conversion_rates |-> [c \in {"EUR"} |-> eur]]

ExchangeRateDown ==
    [net |-> "error", result |-> "error", conversion_rates |-> [c \in {"EUR"} |-> Missing]]

ExchangeRateResponses ==
    {ExchangeRateDown,
     ExchangeRateAnswer("error", Missing),
     ExchangeRateAnswer("success", Bad),
     ExchangeRateAnswer("success", Num(0)),
     ExchangeRateAnswer("success", Num(2))}

Raised == [raised |-> TRUE, rates |-> <<>>]

Returned(rates) == [raised |-> FALSE, rates |-> rates]

\* The loop of CoinGeckoClient.fetch_rates over CRYPTO_ID_MAP.items(), from
\* coin i on: a price that is present is converted with float(), which raises
\* on a value that is not a number.
RECURSIVE CoinGeckoRates(_, _)
CoinGeckoRates(data, i) ==
    IF i > Len(CRYPTO_ID_MAP) THEN Returned(<<>>)
    ELSE LET code == CRYPTO_ID_MAP[i]
             rest == CoinGeckoRates(data, i + 1)
         IN  IF code \notin DOMAIN data \/ data[code].t = "missing" THEN rest
             ELSE IF data[code].t = "bad" \/ rest.raised THEN Raised
             ELSE Returned(<<[pair |-> PairKey(code, BASE_CURRENCY),
                              rate |-> Rat(data[code].v, 1)]>> \o rest.rates)

\* CoinGeckoClient.fetch_rates.
CoinGeckoFetch(resp) ==
    IF resp.net = "error" THEN Raised ELSE CoinGeckoRates(resp.data, 1)

\* The loop of ExchangeRateApiClient.fetch_rates over FIAT_CURRENCIES, from
\* currency i on: the provider's BASE->CURRENCY rate is inverted; inf passes
\* the test raw_rate <= 0 and 1.0 / inf is 0.0.
RECURSIVE ExchangeRateRates(_, _)
ExchangeRateRates(conversion_rates, i) ==
    IF i > Len(FIAT_CURRENCIES) THEN <<>>
    ELSE LET currency == FIAT_CURRENCIES[i]
             rest == ExchangeRateRates(conversion_rates, i + 1)
             raw == IF currency \in DOMAIN conversion_rates
                    THEN conversion_rates[currency] ELSE Missing
         IN  IF raw.t = "inf"
             THEN <<[pair |-> PairKey(currency, BASE_CURRENCY), rate |-> Rat(0, 1)]>> \o rest
             ELSE IF raw.t # "num" \/ raw.v <= 0 THEN rest
             ELSE <<[pair |-> PairKey(currency, BASE_CURRENCY),
                     rate |-> RDiv(One, Rat(raw.v, 1))]>> \o rest

\* ExchangeRateApiClient.fetch_rates.
ExchangeRateFetch(resp) ==
    IF resp.net = "error" \/ resp.result # "success" THEN Raised
    ELSE Returned(ExchangeRateRates(resp.conversion_rates, 1))

\* client.fetch_rates() of the client registered under name; resps gives each
\* client's provider answer.
fetch_rates(name, resps) ==
    IF name = "coingecko" THEN CoinGeckoFetch(resps.coingecko)
    ELSE ExchangeRateFetch(resps.exchangerate)

\* The provider answers of one update cycle.
Responses == [coingecko : CoinGeckoResponses, exchangerate : ExchangeRateResponses]

\* ------------------------------------------------------------------ updater
\* The values passed as run_update's source argument.
SourceArgs == {None, "coingecko", "exchangerate", " Unknown"}

\* source.strip().lower()
StripLower(s) == IF s = " Unknown" THEN "unknown" ELSE s

\* Mutant of select_clients: an unknown source selects every client.
select_clients_Fallback(source) ==
    IF source # None /\ StripLower(source) \in ClientSet
    THEN [raised |-> FALSE, clients |-> <<StripLower(source)>>]
    ELSE [raised |-> FALSE, clients |-> Clients]

\* RatesUpdater._select_clients: the clients to update, or ValueError.
select_clients(source) ==
    IF source = None THEN [raised |-> FALSE, clients |-> Clients]
    ELSE IF StripLower(source) \in ClientSet
    THEN [raised |-> FALSE, clients |-> <<StripLower(source)>>]
    ELSE [raised |-> TRUE, clients |-> <<>>]

\* What happened to one client in a cycle.
NotCalled == [calls |-> 0, status |-> "not_called", rates |-> <<>>]

\* The locals of run_update before its loop, with the files and a log of the
\* calls made.
StartOfUpdate(rfile, hfile, log) ==
    [all_rates |-> EmptyPairs,
     failed_sources |-> <<>>,
     history_added |-> 0,
     rates_file |-> rfile,
     history_file |-> hfile,
     log |-> log,
     clients |-> [c \in ClientSet |-> NotCalled]]

\* The except branch of the loop body: the source is recorded as failed.
MarkFailed(acc, name) ==
    [acc EXCEPT !.failed_sources = Append(@, name)]

\* The try block after fetch_rates returned rates: merge into all_rates, then
\* record history; an exception from recording lands in the except branch.
AfterFetch(acc, name, rates, t, write_fails) ==
    LET merged == [acc EXCEPT !.all_rates = Update(@, AsDict(rates))]
        rec == save_historical_record(acc.history_file, rates, name, t, write_fails)
        logged == [merged EXCEPT !.log = Append(@, <<"save_historical_record", name>>)]
    IN  IF rec.raised
        THEN MarkFailed([logged EXCEPT !.clients[name].status = "record_raised"], name)
        ELSE [logged EXCEPT !.history_added = @ + rec.count,
                            !.history_file = rec.file,
                            !.clients[name].status = "returned"]

\* One iteration of the loop of run_update.
UpdateClient(acc, name, resps, t, rec_fails) ==
    LET fetched == fetch_rates(name, resps)
        called == [acc EXCEPT !.log = Append(@, <<"fetch_rates", name>>),
                              !.clients[name].calls = @ + 1,
                              !.clients[name].rates = fetched.rates]
    IN  IF fetched.raised
        THEN MarkFailed([called EXCEPT !.clients[name].status = "fetch_raised"], name)
        ELSE AfterFetch(called, name, fetched.rates, t, name \in rec_fails)

\* Mutant of UpdateLoop: the loop ends at the first source that fails.
RECURSIVE UpdateLoop_StopsAtFailure(_, _, _, _, _, _)
UpdateLoop_StopsAtFailure(acc, clients, i, resps, t, rec_fails) ==
    IF i > Len(clients) \/ acc.failed_sources # <<>> THEN acc
    ELSE Only({UpdateLoop_StopsAtFailure(next, clients, i + 1, resps, t, rec_fails) :
                  next \in {UpdateClient(acc, clients[i], resps, t, rec_fails)}})

\* The loop of run_update over clients_to_update, from client i on.
RECURSIVE UpdateLoop(_, _, _, _, _, _)
UpdateLoop(acc, clients, i, resps, t, rec_fails) ==
    IF i > Len(clients) THEN acc
    ELSE Only({UpdateLoop(next, clients, i + 1, resps, t, rec_fails) :
                  next \in {UpdateClient(acc, clients[i], resps, t, rec_fails)}})

\* source if source else "multiple"
SourceStr(source) == IF source = None THEN "multiple" ELSE source

\* Mutant of ReportOk: ok only when no source failed.
ReportOk_NoFailure(n_failed, n_clients, updated_pairs) ==
    n_failed = 0 /\ updated_pairs > 0

\* Mutant of ReportOk: ok whenever some source did not fail.
ReportOk_AnySource(n_failed, n_clients, updated_pairs) ==
    n_failed < n_clients

\* The report's ok flag.
ReportOk(n_failed, n_clients, updated_pairs) ==
    n_failed < n_clients /\ updated_pairs > 0

\* Mutant of Persists: the aggregate is persisted even when it is empty.
Persists_Always(all_rates) == TRUE

\* if all_rates: the aggregate is persisted when it is not empty.
Persists(all_rates) == DOMAIN all_rates # {}

\* Mutant of ReportedRefresh: the report carries the time of the call even
\* when nothing was written.
ReportedRefresh_Always(writes, timestamp) == At(timestamp)

\* last_refresh of the report: None, or what save_current_rates returned.
ReportedRefresh(writes, timestamp) == IF writes THEN At(timestamp) ELSE Null

\* The part of run_update after the loop: persist the aggregate, build the
\* report.
FinishUpdate(acc, source, n_clients, t) ==
    LET updated_pairs == Cardinality(DOMAIN acc.all_rates)
        writes == Persists(acc.all_rates)
        rfile == IF writes
                 THEN save_current_rates(acc.rates_file, acc.all_rates, SourceStr(source), t)
                 ELSE acc.rates_file
        log == IF writes THEN Append(acc.log, <<"save_current_rates", SourceStr(source)>>)
               ELSE acc.log
    IN  [raised |-> "none",
         report |-> [ok |-> ReportOk(Len(acc.failed_sources), n_clients, updated_pairs),
                     updated_pairs |-> updated_pairs,
                     history_added |-> acc.history_added,
                     failed_sources |-> acc.failed_sources,
                     last_refresh |-> ReportedRefresh(writes, t)],
         rates_file |-> rfile,
         history_file |-> acc.history_file,
         log |-> log,
         clients |-> acc.clients]

NoReport ==
    [ok |-> FALSE, updated_pairs |-> 0, history_added |-> 0,
     failed_sources |-> <<>>, last_refresh |-> Null]

\* RatesUpdater.run_update(source) at instant t on the given files: the
\* exception raised ("none" when it returns), the report, the files left, the
\* log extended with the calls made, and what happened to each client.
run_update(rfile, hfile, log, source, resps, t, rec_fails) ==
    LET sel == select_clients(source)
    IN  IF sel.raised
        THEN [raised |-> "ValueError",
              report |-> NoReport,
              rates_file |-> rfile,
              history_file |-> hfile,
              log |-> log,
              clients |-> [c \in ClientSet |-> NotCalled]]
        ELSE Only({FinishUpdate(acc, source, Len(sel.clients), t) :
                      acc \in {UpdateLoop(StartOfUpdate(rfile, hfile, log), sel.clients,
                                          1, resps, t, rec_fails)}})

\* --------------------------------------------------------------- resolution
\* The registry of currencies.py.
RegisteredCurrencies == {"USD", "EUR", "RUB", "GBP", "JPY", "CNY", "BTC", "ETH"}

\* The strings passed as currency arguments.
CurrencyArgs == {"USD", "BTC", " btc", "EUR", "XXX"}

\* The (from, to) arguments of the rate lookups made.
Requests ==
    {<<" btc", "USD">>, <<"USD", " btc">>, <<"BTC", "EUR">>, <<"EUR", "BTC">>,
     <<" btc", "BTC">>, <<"USD", "USD">>, <<"XXX", "USD">>, <<"EUR", "XXX">>}

\* str(code).strip().upper()
StripUpper(s) == IF s = " btc" THEN "BTC" ELSE s

\* get_currency(code).code, or CurrencyNotFoundError.
get_currency(code) ==
    IF StripUpper(code) \in RegisteredCurrencies
    THEN [raised |-> FALSE, code |-> StripUpper(code)]
    ELSE [raised |-> TRUE, code |-> StripUpper(code)]

\* Mutant of is_rate_fresh: an entry whose age equals the TTL is stale.
is_rate_fresh_Strict(updated_at, t) ==
    IF updated_at = Null THEN FALSE ELSE t - updated_at[1] < TTL

\* is_rate_fresh at instant t, with the TTL of the settings.
is_rate_fresh(updated_at, t) ==
    IF updated_at = Null THEN FALSE ELSE t - updated_at[1] <= TTL

\* DatabaseManager.load_file("rates_file"): {} for a missing file, an
\* exception for a file that is not JSON.
load_file(file) ==
    IF file.kind = "corrupt" THEN [raised |-> TRUE, data |-> file]
    ELSE IF file.kind = "absent"
    THEN [raised |-> FALSE, data |-> LegacyFile(EmptyPairs, Null, NoField)]
    ELSE [raised |-> FALSE, data |-> file]

\* get_fresh_rate's view of the loaded data: data["pairs"] when it is a dict,
\* else the data itself (its pair keys).
rates_pairs_of(data) == data.pairs

\* A lookup in the loaded pairs that answers from a fresh entry: the direct
\* pair, else the inverse pair with a non-zero rate, else nothing.
NoHit == [hit |-> "none", rate |-> One, updated_at |-> Null]

\* Mutant of DirectHit: the direct pair answers whatever its age.
DirectHit_IgnoresTTL(pairs, rate_key, t) == rate_key \in DOMAIN pairs

DirectHit(pairs, rate_key, t) ==
    rate_key \in DOMAIN pairs /\ is_rate_fresh(pairs[rate_key].updated_at, t)

InverseHit(pairs, rev_key, t) ==
    /\ rev_key \in DOMAIN pairs
    /\ is_rate_fresh(pairs[rev_key].updated_at, t)
    /\ ~IsZero(pairs[rev_key].rate)

\* Mutant of InverseRate: the inverse pair's rate is returned as it is.
InverseRate_NotInverted(rev_rate) == rev_rate

\* 1.0 / rev_rate
InverseRate(rev_rate) == RDiv(One, rev_rate)

CacheLookup(pairs, from_code, to_code, t) ==
    LET rate_key == PairKey(from_code, to_code)
        rev_key == PairKey(to_code, from_code)
    IN  IF DirectHit(pairs, rate_key, t)
        THEN [hit |-> "direct", rate |-> pairs[rate_key].rate,
              updated_at |-> pairs[rate_key].updated_at]
        ELSE IF InverseHit(pairs, rev_key, t)
        THEN [hit |-> "inverse", rate |-> InverseRate(pairs[rev_key].rate),
              updated_at |-> pairs[rev_key].updated_at]
        ELSE NoHit

\* float(entry.get("rate")) of pairs.get(key), or None.
NoRate == <<>>

UsdLeg(pairs, key) == IF key \in DOMAIN pairs THEN <<pairs[key].rate>> ELSE NoRate

\* Mutant of Usable: any leg that is present is used.
Usable_Present(leg) == leg # NoRate

\* leg and leg > 0
Usable(leg) == leg # NoRate /\ ~IsZero(leg[1]) /\ IsPositive(leg[1])

\* Mutant of CrossRate: the legs are multiplied.
CrossRate_Product(from_usd, to_usd) == Rat(from_usd[1] * to_usd[1], from_usd[2] * to_usd[2])

\* from_usd / to_usd
CrossRate(from_usd, to_usd) == RDiv(from_usd, to_usd)

\* The computation of fetch_rate_from_parser on the snapshot that storage
\* loads after the update cycle: <<rate>>, or <<>> for None.
RateFromSnapshot(pairs, f_code, t_code) ==
    LET direct_key == PairKey(f_code, t_code)
        from_usd == UsdLeg(pairs, PairKey(f_code, "USD"))
        to_usd == UsdLeg(pairs, PairKey(t_code, "USD"))
    IN  IF f_code = t_code THEN <<One>>
        ELSE IF direct_key \in DOMAIN pairs THEN <<pairs[direct_key].rate>>
        ELSE IF f_code = "USD" /\ Usable(to_usd) THEN <<RDiv(One, to_usd[1])>>
        ELSE IF t_code = "USD" /\ Usable(from_usd) THEN <<from_usd[1]>>
        ELSE IF Usable(from_usd) /\ Usable(to_usd) THEN <<CrossRate(from_usd[1], to_usd[1])>>
        ELSE NoRate

\* fetch_rate_from_parser after run_update gave upd: the rate computed from
\* the snapshot storage loads.
AfterUpdate(upd, f_code, t_code) ==
    LET snapshot == load_current_rates(upd.rates_file)
    IN  [fetched |-> IF upd.raised # "none" THEN NoRate
                     ELSE RateFromSnapshot(existing_pairs_of(snapshot), f_code, t_code),
         update |-> upd,
         rates_file |-> upd.rates_file,
         history_file |-> upd.history_file,
         log |-> Append(upd.log, <<"load_rates_snapshot", "storage">>)]

\* fetch_rate_from_parser: one full update cycle, then the rate.
fetch_rate_from_parser(rfile, hfile, log, f_code, t_code, resps, t, rec_fails) ==
    Only({AfterUpdate(upd, f_code, t_code) :
             upd \in {run_update(rfile, hfile, Append(log, <<"run_update", None>>),
                                 None, resps, t, rec_fails)}})

\* The entry get_fresh_rate adds for the pair it resolved.
ResolvedEntry(fetched, t) ==
    [rate |-> fetched, updated_at |-> At(t), source |-> NoField]

\* The file get_fresh_rate saves through DatabaseManager.save_file.
WithResolved(data, rate_key, fetched, t) ==
    [kind |-> data.kind,
     pairs |-> Update(data.pairs, [k \in {rate_key} |-> ResolvedEntry(fetched, t)]),
     last_refresh |-> At(t),
     source |-> "ParserService"]

NoUpdate ==
    [raised |-> "not_run", report |-> NoReport, rates_file |-> AbsentFile,
     history_file |-> HistoryFile("absent", <<>>), log |-> <<>>,
     clients |-> [c \in ClientSet |-> NotCalled]]

Answer(raised, rate, updated_at, rfile, hfile, log, update) ==
    [raised |-> raised, rate |-> rate, updated_at |-> updated_at,
     rates_file |-> rfile, history_file |-> hfile, log |-> log, update |-> update]

\* get_fresh_rate after fetch_rate_from_parser returned got: fail, or re-read
\* the cache and answer from it, or store the computed rate.
AfterRefresh(got, from_code, to_code, t) ==
    LET refreshed == load_file(got.rates_file)
        log2 == Append(got.log, <<"load_file", "rates_file">>)
        again == CacheLookup(rates_pairs_of(refreshed.data), from_code, to_code, t)
    IN  IF got.fetched = NoRate
        THEN Answer("ApiRequestError", One, Null, got.rates_file, got.history_file,
                    got.log, got.update)
        ELSE IF refreshed.raised
        THEN Answer("JSONDecodeError", One, Null, got.rates_file, got.history_file,
                    log2, got.update)
        ELSE IF again.hit # "none"
        THEN Answer("none", again.rate, again.updated_at, got.rates_file,
                    got.history_file, log2, got.update)
        ELSE Answer("none", got.fetched[1], At(t),
                    WithResolved(refreshed.data, PairKey(from_code, to_code),
                                 got.fetched[1], t),
                    got.history_file,
                    Append(log2, <<"save_file", "rates_file">>), got.update)

\* get_fresh_rate after the cache gave no fresh answer.
RefreshAndResolve(rfile, hfile, log, from_code, to_code, resps, t, rec_fails) ==
    Only({AfterRefresh(got, from_code, to_code, t) :
             got \in {fetch_rate_from_parser(rfile, hfile, log, from_code, to_code,
                                             resps, t, rec_fails)}})

\* get_fresh_rate(from_code, to_code) for registered codes at instant t.
get_fresh_rate(rfile, hfile, from_code, to_code, resps, t, rec_fails) ==
    LET loaded == load_file(rfile)
        log == <<<<"load_file", "rates_file">>>>
        cached == CacheLookup(rates_pairs_of(loaded.data), from_code, to_code, t)
    IN  IF loaded.raised
        THEN Answer("JSONDecodeError", One, Null, rfile, hfile, log, NoUpdate)
        ELSE IF cached.hit # "none"
        THEN Answer("none", cached.rate, cached.updated_at, rfile, hfile, log, NoUpdate)
        ELSE RefreshAndResolve(rfile, hfile, log, from_code, to_code, resps, t, rec_fails)

\* Mutant of SameCurrency: the same-currency shortcut is never taken.
SameCurrency_Never(from_code, to_code) == FALSE

\* from_code == to_code
SameCurrency(from_code, to_code) == from_code = to_code

\* get_rate(from_currency, to_currency) at instant t.
get_rate(rfile, hfile, from_currency, to_currency, resps, t, rec_fails) ==
    LET from == get_currency(from_currency)
        to == get_currency(to_currency)
    IN  IF from.raised \/ to.raised
        THEN Answer("CurrencyNotFoundError", One, Null, rfile, hfile, <<>>, NoUpdate)
        ELSE IF SameCurrency(from.code, to.code)
        THEN Answer("none", One, At(t), rfile, hfile, <<>>, NoUpdate)
        ELSE get_fresh_rate(rfile, hfile, from.code, to.code, resps, t, rec_fails)

\* ---------------------------------------------------------------- scheduler
\* RatesScheduler.__init__: the stop_event is clear and there is no thread.
\* threads lists the position of every thread created so far, self.thread
\* being the last one; joining says that the caller is inside stop(), in
\* thread.join(timeout=5); stopped that stop() has returned and start() was
\* not called since; starts and stops count the calls, warnings the warnings
\* "already running" logged, cycles the update cycles begun and errors the
\* errors run_once logged.
NewScheduler ==
    [stop_event |-> FALSE, threads |-> <<>>, joining |-> FALSE, stopped |-> FALSE,
     starts |-> 0, stops |-> 0, warnings |-> 0, cycles |-> 0, errors |-> 0]

\* Mutant of LoopGoesOn: the loop does not look at the stop_event.
LoopGoesOn_Always(stop_event) == TRUE

\* while not self.stop_event.is_set()
LoopGoesOn(stop_event) == ~stop_event

\* Mutant of IsAlive: the thread is never seen alive.
IsAlive_Never(threads) == FALSE

\* self.thread and self.thread.is_alive()
IsAlive(threads) == threads # <<>> /\ threads[Len(threads)] # "dead"

\* ----------------------------------------------------------------- amounts
\* Balances and amounts are floats: fractions <<n, d>> with d > 0, and nan.
NaN == <<0, 0>>

IsNaN(x) == x[2] = 0

Zero == Rat(0, 1)

\* a + b, a - b and a * b for floats; nan in, nan out.
FAdd(a, b) ==
    IF IsNaN(a) \/ IsNaN(b) THEN NaN ELSE Rat(a[1] * b[2] + b[1] * a[2], a[2] * b[2])

FSub(a, b) ==
    IF IsNaN(a) \/ IsNaN(b) THEN NaN ELSE Rat(a[1] * b[2] - b[1] * a[2], a[2] * b[2])

FMul(a, b) == IF IsNaN(a) \/ IsNaN(b) THEN NaN ELSE Rat(a[1] * b[1], a[2] * b[2])

\* a < b and a <= b for floats; every comparison with nan is false.
FLess(a, b) == ~IsNaN(a) /\ ~IsNaN(b) /\ a[1] * b[2] < b[1] * a[2]

FLeq(a, b) == ~IsNaN(a) /\ ~IsNaN(b) /\ a[1] * b[2] <= b[1] * a[2]

\* The strings given as --amount.
AmountArgs == {"1", "0", "nan", "abc"}

\* float(s) for a string: the value, or ValueError.
ToFloat(s) ==
    CASE s = "1" -> [raised |-> FALSE, value |-> Rat(1, 1)]
      [] s = "2" -> [raised |-> FALSE, value |-> Rat(2, 1)]
      [] s = "0" -> [raised |-> FALSE, value |-> Zero]
      [] s = "nan" -> [raised |-> FALSE, value |-> NaN]
      [] OTHER -> [raised |-> TRUE, value |-> Zero]

\* float(x) for a float.
AsFloat(x) == [raised |-> FALSE, value |-> x]

\* validate_amount, given what float(amount) did: TypeError when it raised,
\* ValueError when amount <= 0, else the amount.
validate_amount(parsed) ==
    IF parsed.raised THEN [raised |-> "TypeError", value |-> Zero]
    ELSE IF FLeq(parsed.value, Zero) THEN [raised |-> "ValueError", value |-> Zero]
    ELSE [raised |-> "none", value |-> parsed.value]

\* ----------------------------------------------------------------- wallets
\* Wallet.deposit on a wallet with the given balance.
deposit(balance, amount) ==
    LET amt == validate_amount(AsFloat(amount))
    IN  IF amt.raised # "none" THEN [raised |-> amt.raised, balance |-> balance]
        ELSE [raised |-> "none", balance |-> FAdd(balance, amt.value)]

\* Wallet.withdraw on a wallet with the given balance.
withdraw(balance, amount) ==
    LET amt == validate_amount(AsFloat(amount))
    IN  IF amt.raised # "none" THEN [raised |-> amt.raised, balance |-> balance]
        ELSE IF FLess(balance, amt.value)
        THEN [raised |-> "InsufficientFundsError", balance |-> balance]
        ELSE [raised |-> "none", balance |-> FSub(balance, amt.value)]

\* ------------------------------------------------------------ account files
\* users.json and portfolios.json: absent, not JSON, or an object holding
\* the list of users, or of portfolios.
UsersFile(kind, users) == [kind |-> kind, users |-> users]

PortfoliosFile(kind, portfolios) == [kind |-> kind, portfolios |-> portfolios]

\* DatabaseManager.load_file("users_file") and data.get("users", []): {} for
\* a missing file, JSONDecodeError for a file that is not JSON.
load_users(file) ==
    IF file.kind = "corrupt" THEN [raised |-> TRUE, users |-> <<>>]
    ELSE [raised |-> FALSE, users |-> file.users]

\* DatabaseManager.load_file("portfolios_file") and data.get("portfolios", []).
load_portfolios(file) ==
    IF file.kind = "corrupt" THEN [raised |-> TRUE, portfolios |-> <<>>]
    ELSE [raised |-> FALSE, portfolios |-> file.portfolios]

\* What can go wrong in a save_file: nothing; open(file_path, "w") raises;
\* or, the file opened and so truncated, a write of json.dump raises.
SaveFaults == {"none", "open", "write"}

\* The file that open(file_path, "w") and a failed write leave: not JSON.
CutShort(data) == [k \in DOMAIN data |-> IF k = "kind" THEN "corrupt" ELSE <<>>]

\* DatabaseManager.save_file: the data are dumped, or an exception is raised
\* with the file as it was or cut short.
save_file(file, data, fault) ==
    IF fault = "open" THEN [raised |-> TRUE, file |-> file]
    ELSE IF fault = "write" THEN [raised |-> TRUE, file |-> CutShort(data)]
    ELSE [raised |-> FALSE, file |-> data]

\* The least element of a non-empty set of positions.
First(S) == CHOOSE i \in S : \A j \in S : i <= j

\* PortfolioService._find_portfolio: the position of the first portfolio of
\* the user, 0 for None; int(None) raises and the portfolio is skipped.
find_portfolio(portfolios, user_id) ==
    LET hits == {i \in 1..Len(portfolios) :
                    user_id # Null /\ portfolios[i].user_id = user_id[1]}
    IN  IF hits = {} THEN 0 ELSE First(hits)

\* PortfolioService._restore_portfolio: a Wallet for each stored balance;
\* the balance setter raises ValueError for a balance below zero.
restore_portfolio(p_dict) ==
    IF \E c \in DOMAIN p_dict.wallets : FLess(p_dict.wallets[c], Zero)
    THEN [raised |-> TRUE, wallets |-> p_dict.wallets]
    ELSE [raised |-> FALSE, wallets |-> p_dict.wallets]

\* PortfolioService._save_portfolio: the wallets of the user's first portfolio
\* are replaced and the whole data are saved.
save_portfolio(file, portfolios, idx, wallets, fault) ==
    save_file(file, PortfoliosFile("dict", [portfolios EXCEPT ![idx].wallets = wallets]),
              fault)

\* What a portfolio operation gives: the exception it raised or its
\* (success, message), the files it leaves, and the rate it used.
Outcome(raised, ok, msg, pfile, rfile, hfile, rate) ==
    [raised |-> raised, ok |-> ok, msg |-> msg, portfolios_file |-> pfile,
     rates_file |-> rfile, history_file |-> hfile, rate |-> rate]

\* PortfolioService.deposit_usd, given what float(amount) did.
deposit_usd(pfile, rfile, hfile, user_id, parsed, fault) ==
    LET amt == validate_amount(parsed)
        loaded == load_portfolios(pfile)
        idx == find_portfolio(loaded.portfolios, user_id)
        restored == restore_portfolio(loaded.portfolios[idx])
        credit == deposit(restored.wallets["USD"], amt.value)
        saved == save_portfolio(pfile, loaded.portfolios, idx,
                                [restored.wallets EXCEPT !["USD"] = credit.balance],
                                fault)
    IN  IF amt.raised # "none"
        THEN Outcome(amt.raised, FALSE, "", pfile, rfile, hfile, One)
        ELSE IF loaded.raised
        THEN Outcome("JSONDecodeError", FALSE, "", pfile, rfile, hfile, One)
        ELSE IF idx = 0
        THEN Outcome("none", FALSE, "no_portfolio", pfile, rfile, hfile, One)
        ELSE IF restored.raised
        THEN Outcome("ValueError", FALSE, "", pfile, rfile, hfile, One)
        ELSE IF "USD" \notin DOMAIN restored.wallets
        THEN Outcome("none", FALSE, "no_usd_wallet", pfile, rfile, hfile, One)
        ELSE IF credit.raised # "none"
        THEN Outcome(credit.raised, FALSE, "", pfile, rfile, hfile, One)
        ELSE IF saved.raised
        THEN Outcome("none", FALSE, "save_failed", saved.file, rfile, hfile, One)
        ELSE Outcome("none", TRUE, "deposited", saved.file, rfile, hfile, One)

\* Mutant of Cost: the price is the amount, whatever the rate.
Cost_Amount(amt, rate) == amt

\* cost_usd = amt * rate, and proceeds_usd = amt * rate.
Cost(amt, rate) == FMul(amt, rate)

\* buy once get_rate(code, "USD") has answered: the check of the USD
\* balance, the debit, the credit of the wallet (created at 0.0 when the
\* portfolio has none), and the save.
BuyAt(pfile, portfolios, idx, wallets, code, amt, got, fault) ==
    LET cost_usd == Cost(amt, got.rate)
        debit == withdraw(wallets["USD"], cost_usd)
        before == IF code \in DOMAIN wallets THEN wallets[code] ELSE Zero
        credit == deposit(before, amt)
        bought == [c \in DOMAIN wallets \cup {code} |->
                      IF c = "USD" THEN debit.balance
                      ELSE IF c = code THEN credit.balance ELSE wallets[c]]
        saved == save_portfolio(pfile, portfolios, idx, bought, fault)
        rfile == got.rates_file
        hfile == got.history_file
    IN  IF got.raised # "none"
        THEN Outcome("none", FALSE, "rate_unavailable", pfile, rfile, hfile, One)
        ELSE IF FLess(wallets["USD"], cost_usd)
        THEN Outcome("none", FALSE, "insufficient_usd", pfile, rfile, hfile, got.rate)
        ELSE IF debit.raised = "InsufficientFundsError"
        THEN Outcome("none", FALSE, "insufficient_funds", pfile, rfile, hfile, got.rate)
        ELSE IF debit.raised # "none"
        THEN Outcome(debit.raised, FALSE, "", pfile, rfile, hfile, got.rate)
        ELSE IF credit.raised # "none"
        THEN Outcome(credit.raised, FALSE, "", pfile, rfile, hfile, got.rate)
        ELSE IF saved.raised
        THEN Outcome("none", FALSE, "save_failed", saved.file, rfile, hfile, got.rate)
        ELSE Outcome("none", TRUE, "bought", saved.file, rfile, hfile, got.rate)

\* PortfolioService.buy.
buy(pfile, rfile, hfile, user_id, currency, amount, resps, t, fault) ==
    LET found == get_currency(currency)
        amt == validate_amount(ToFloat(amount))
        loaded == load_portfolios(pfile)
        idx == find_portfolio(loaded.portfolios, user_id)
        restored == restore_portfolio(loaded.portfolios[idx])
    IN  IF found.raised
        THEN Outcome("CurrencyNotFoundError", FALSE, "", pfile, rfile, hfile, One)
        ELSE IF amt.raised # "none"
        THEN Outcome(amt.raised, FALSE, "", pfile, rfile, hfile, One)
        ELSE IF found.code = "USD"
        THEN Outcome("none", FALSE, "not_usd", pfile, rfile, hfile, One)
        ELSE IF loaded.raised
        THEN Outcome("JSONDecodeError", FALSE, "", pfile, rfile, hfile, One)
        ELSE IF idx = 0
        THEN Outcome("none", FALSE, "no_portfolio", pfile, rfile, hfile, One)
        ELSE IF restored.raised
        THEN Outcome("ValueError", FALSE, "", pfile, rfile, hfile, One)
        ELSE IF "USD" \notin DOMAIN restored.wallets
        THEN Outcome("none", FALSE, "no_usd_wallet", pfile, rfile, hfile, One)
        ELSE Only({BuyAt(pfile, loaded.portfolios, idx, restored.wallets, found.code,
                         amt.value, got, fault) :
                      got \in {get_rate(rfile, hfile, found.code, "USD", resps, t, {})}})

\* Mutant of Unsold: the debited wallet is saved before the rate is known.
Unsold_SavesDebit(pfile, portfolios, idx, wallets, code, debit) ==
    save_portfolio(pfile, portfolios, idx, [wallets EXCEPT ![code] = debit.balance],
                   "none").file

\* The portfolios file after get_rate raised in sell: wallet.deposit(amt)
\* undoes the debit in memory and nothing is saved.
Unsold(pfile, portfolios, idx, wallets, code, debit) == pfile

\* sell once the wallet was debited and get_rate(code, "USD") has answered:
\* the credit of the USD wallet and the save.
SellAt(pfile, portfolios, idx, wallets, code, amt, debit, got, fault) ==
    LET proceeds_usd == Cost(amt, got.rate)
        credit == deposit(wallets["USD"], proceeds_usd)
        sold == [c \in DOMAIN wallets |->
                    IF c = "USD" THEN credit.balance
                    ELSE IF c = code THEN debit.balance ELSE wallets[c]]
        saved == save_portfolio(pfile, portfolios, idx, sold, fault)
        rfile == got.rates_file
        hfile == got.history_file
    IN  IF got.raised # "none"
        THEN Outcome("none", FALSE, "rate_unavailable",
                     Unsold(pfile, portfolios, idx, wallets, code, debit), rfile, hfile, One)
        ELSE IF "USD" \notin DOMAIN wallets
        THEN Outcome("none", FALSE, "no_usd_wallet", pfile, rfile, hfile, got.rate)
        ELSE IF credit.raised # "none"
        THEN Outcome(credit.raised, FALSE, "", pfile, rfile, hfile, got.rate)
        ELSE IF saved.raised
        THEN Outcome("none", FALSE, "save_failed", saved.file, rfile, hfile, got.rate)
        ELSE Outcome("none", TRUE, "sold", saved.file, rfile, hfile, got.rate)

\* PortfolioService.sell.
sell(pfile, rfile, hfile, user_id, currency, amount, resps, t, fault) ==
    LET found == get_currency(currency)
        amt == validate_amount(ToFloat(amount))
        loaded == load_portfolios(pfile)
        idx == find_portfolio(loaded.portfolios, user_id)
        restored == restore_portfolio(loaded.portfolios[idx])
        debit == withdraw(restored.wallets[found.code], amt.value)
    IN  IF found.raised
        THEN Outcome("CurrencyNotFoundError", FALSE, "", pfile, rfile, hfile, One)
        ELSE IF amt.raised # "none"
        THEN Outcome(amt.raised, FALSE, "", pfile, rfile, hfile, One)
        ELSE IF found.code = "USD"
        THEN Outcome("none", FALSE, "not_usd", pfile, rfile, hfile, One)
        ELSE IF loaded.raised
        THEN Outcome("JSONDecodeError", FALSE, "", pfile, rfile, hfile, One)
        ELSE IF idx = 0
        THEN Outcome("none", FALSE, "no_portfolio", pfile, rfile, hfile, One)
        ELSE IF restored.raised
        THEN Outcome("ValueError", FALSE, "", pfile, rfile, hfile, One)
        ELSE IF found.code \notin DOMAIN restored.wallets
        THEN Outcome("none", FALSE, "no_wallet", pfile, rfile, hfile, One)
        ELSE IF debit.raised = "InsufficientFundsError"
        THEN Outcome("none", FALSE, "insufficient_funds", pfile, rfile, hfile, One)
        ELSE IF debit.raised # "none"
        THEN Outcome(debit.raised, FALSE, "", pfile, rfile, hfile, One)
        ELSE Only({SellAt(pfile, loaded.portfolios, idx, restored.wallets, found.code,
                          amt.value, debit, got, fault) :
                      got \in {get_rate(rfile, hfile, found.code, "USD", resps, t, {})}})

\* The wallets of a portfolio in the order of sorted(wallets.keys()).
CodeOrder == <<"BTC", "CNY", "ETH", "EUR", "GBP", "JPY", "RUB", "USD">>

SortedCodes(S) ==
    LET Held(c) == c \in S
    IN  SelectSeq(CodeOrder, Held)

\* The loop of get_portfolio: get_rate(currency_code, base) for each wallet
\* in turn, until one raises.
RECURSIVE RatesFor(_, _, _, _, _, _)
RatesFor(codes, i, rfile, hfile, resps, t) ==
    IF i > Len(codes)
    THEN [raised |-> "none", rates_file |-> rfile, history_file |-> hfile]
    ELSE Only({IF got.raised # "none"
               THEN [raised |-> got.raised, rates_file |-> got.rates_file,
                     history_file |-> got.history_file]
               ELSE RatesFor(codes, i + 1, got.rates_file, got.history_file, resps, t) :
                  got \in {get_rate(rfile, hfile, codes[i], "USD", resps, t, {})}})

\* PortfolioService.get_portfolio(user_id) with base "USD".
get_portfolio(ufile, pfile, rfile, hfile, user_id, resps, t) ==
    LET loaded == load_portfolios(pfile)
        idx == find_portfolio(loaded.portfolios, user_id)
        restored == restore_portfolio(loaded.portfolios[idx])
        rated == RatesFor(SortedCodes(DOMAIN restored.wallets), 1, rfile, hfile, resps, t)
    IN  IF load_users(ufile).raised \/ loaded.raised
        THEN Outcome("JSONDecodeError", FALSE, "", pfile, rfile, hfile, One)
        ELSE IF user_id = Null
        THEN Outcome("TypeError", FALSE, "", pfile, rfile, hfile, One)
        ELSE IF idx = 0
        THEN Outcome("none", FALSE, "no_portfolio", pfile, rfile, hfile, One)
        ELSE IF restored.raised
        THEN Outcome("ValueError", FALSE, "", pfile, rfile, hfile, One)
        ELSE Outcome("none", rated.raised = "none", "portfolio", pfile,
                     rated.rates_file, rated.history_file, One)

\* PortfolioService.create_portfolio: True when the user has a portfolio
\* already, or when one with a USD wallet at 0.0 was added and saved; False
\* when loading or saving raised.
create_portfolio(pfile, user_id, fault) ==
    LET loaded == load_portfolios(pfile)
        new_portfolio == [user_id |-> user_id, wallets |-> [c \in {"USD"} |-> Zero]]
        saved == save_file(pfile,
                           PortfoliosFile("dict", Append(loaded.portfolios, new_portfolio)),
                           fault)
    IN  IF loaded.raised THEN [ok |-> FALSE, file |-> pfile]
        ELSE IF find_portfolio(loaded.portfolios, At(user_id)) # 0
        THEN [ok |-> TRUE, file |-> pfile]
        ELSE [ok |-> ~saved.raised, file |-> saved.file]

\* ------------------------------------------------------------------- users
\* The strings given as --username and --password, and the salts that
\* secrets.token_hex draws.
Usernames == {"alice", " alice", "bob"}

Passwords == {"pass1", "pw"}

Salts == {"s1", "s2"}

\* str(value).strip()
Strip(s) == IF s = " alice" THEN "alice" ELSE s

\* len(value) < 4
TooShort(password) == password = "pw"

\* sha256((password + salt).encode()).hexdigest()
MakeHash(password, salt) == <<"sha256", password, salt>>

\* Mutant of verify_password: any password is accepted.
verify_password_Any(user, password) == TRUE

\* User.verify_password for a stored user.
verify_password(user, password) == MakeHash(password, user.salt) = user.hashed_password

\* UserService._next_user_id
RECURSIVE MaxId(_)
MaxId(users) ==
    IF users = <<>> THEN 0
    ELSE LET rest == MaxId(Tail(users))
         IN  IF users[1].user_id > rest THEN users[1].user_id ELSE rest

next_user_id(users) == MaxId(users) + 1

\* any(u.get("username") == username for u in users)
Taken(users, username) == \E i \in 1..Len(users) : users[i].username = username

\* No save goes wrong, or the saves of one of the two files do.
NoFaults == [users_file |-> "none", portfolios_file |-> "none"]

SignupFaults ==
    {f \in [users_file : SaveFaults, portfolios_file : SaveFaults] :
        f.users_file = "none" \/ f.portfolios_file = "none"}

\* What signup and login give: (success, message), the id of the user, and
\* the files they leave.
Signed(ok, msg, user_id, ufile, pfile) ==
    [ok |-> ok, msg |-> msg, user_id |-> user_id, users_file |-> ufile,
     portfolios_file |-> pfile]

\* UserService.signup; faults gives what goes wrong in the saves of each file.
signup(ufile, pfile, username, password, salt, faults) ==
    LET loaded == load_users(ufile)
        reset == save_file(ufile, UsersFile("dict", <<>>), faults.users_file)
        users == IF loaded.raised THEN <<>> ELSE loaded.users
        found == IF loaded.raised THEN reset.file ELSE ufile
        user_id == next_user_id(users)
        user == [user_id |-> user_id, username |-> Strip(username),
                 hashed_password |-> MakeHash(password, salt), salt |-> salt]
        saved == save_file(found, UsersFile("dict", Append(users, user)),
                           faults.users_file)
        created == create_portfolio(pfile, user_id, faults.portfolios_file)
    IN  IF loaded.raised /\ reset.raised
        THEN Signed(FALSE, "error", Null, reset.file, pfile)
        ELSE IF Taken(users, username)
        THEN Signed(FALSE, "taken", Null, found, pfile)
        ELSE IF Strip(username) = "" \/ TooShort(password)
        THEN Signed(FALSE, "error", Null, found, pfile)
        ELSE IF saved.raised
        THEN Signed(FALSE, "error", Null, saved.file, pfile)
        ELSE Signed(TRUE, "registered", At(user_id), saved.file, created.file)

\* UserService.login.
login(ufile, username, password) ==
    LET loaded == load_users(ufile)
        hits == {i \in 1..Len(loaded.users) : loaded.users[i].username = username}
        user == loaded.users[First(hits)]
    IN  IF loaded.raised THEN Signed(FALSE, "error", Null, ufile, Null)
        ELSE IF hits = {} THEN Signed(FALSE, "not_found", Null, ufile, Null)
        ELSE IF ~verify_password(user, password)
        THEN Signed(FALSE, "wrong_password", Null, ufile, Null)
        ELSE Signed(TRUE, "logged_in", At(user.user_id), ufile, Null)

\* --------------------------------------------------------------------- CLI
\* The record of a command: what was typed, and the message returned.
Command(command, username, password, currency, amount, ok, msg, rate) ==
    [command |-> command, username |-> username, password |-> password,
     currency |-> currency, amount |-> amount, ok |-> ok, msg |-> msg, rate |-> rate]

NoCommand == Command("none", "", "", "", "", FALSE, "", One)

\* CLIInterface.__init__ before any file exists.
NewCli ==
    [current_user |-> Null,
     users_file |-> UsersFile("absent", <<>>),
     portfolios_file |-> PortfoliosFile("absent", <<>>),
     commands |-> 0,
     last |-> NoCommand]

\* Mutant of LoggedOut: the commands never ask for a login.
LoggedOut_Never(current_user) == FALSE

\* self.current_user is None
LoggedOut(current_user) == current_user = Null

\* ------------------------------------------------------------ state machine
\* Provider answers used to build the files that earlier sessions left.
AllUp ==
    [coingecko |-> CoinGeckoAnswer(Num(2), Missing),
     exchangerate |-> ExchangeRateAnswer("success", Num(2))]

AllDown == [coingecko |-> CoinGeckoDown, exchangerate |-> ExchangeRateDown]

ZeroPrice ==
    [coingecko |-> CoinGeckoAnswer(Num(0), Missing), exchangerate |-> ExchangeRateDown]

NoHistory == HistoryFile("absent", <<>>)

\* Before the session (instants -2 and -1) and at its start (instant 0):
\* a full update two instants ago; then USD->BTC resolved at instant 0 with
\* the providers down; a CoinGecko update at instant 0; an ExchangeRate update
\* merged into it; a CoinGecko update that got a zero price.
FullThenStale ==
    run_update(AbsentFile, NoHistory, <<>>, None, AllUp, -2, {}).rates_file

StaleWithInverse ==
    get_rate(FullThenStale, NoHistory, "USD", " btc", AllDown, 0, {}).rates_file

FreshCoinGecko ==
    run_update(AbsentFile, NoHistory, <<>>, "coingecko", AllUp, 0, {}).rates_file

FreshMerged ==
    run_update(FreshCoinGecko, NoHistory, <<>>, "exchangerate", AllUp, 0, {}).rates_file

FreshZero ==
    run_update(AbsentFile, NoHistory, <<>>, "coingecko", ZeroPrice, 0, {}).rates_file

\* Files found on disk at the start of the session: none, a file that is not
\* JSON, a cache in the old format, a snapshot with an entry whose updated_at
\* does not parse, and the files that earlier calls left.
InitialRatesFiles ==
    {AbsentFile,
     CorruptFile,
     LegacyFile([k \in {PairKey("BTC", "USD")} |->
                    [rate |-> Rat(2, 1), updated_at |-> At(0), source |-> NoField]],
                At(0), "ParserService"),
     SnapshotFile([k \in {PairKey("BTC", "USD")} |->
                    [rate |-> Rat(2, 1), updated_at |-> Null, source |-> "coingecko"]],
                  Null, "coingecko"),
     FullThenStale,
     StaleWithInverse,
     FreshCoinGecko,
     FreshMerged,
     FreshZero}

\* The record an earlier update left in the history.
OldRecord == HistoryRecord([pair |-> PairKey("BTC", "USD"), rate |-> Rat(2, 1)], "coingecko", -2)

\* History files found at the start besides none: a file that is not JSON, a
\* list with one record, the old format {"records": [...]} with one record,
\* and JSON that is neither a list nor an object with a list of records.
InitialHistoryFiles ==
    {HistoryFile("corrupt", <<>>),
     HistoryFile("list", <<OldRecord>>),
     HistoryFile("dict", <<OldRecord>>),
     HistoryFile("other", <<>>)}

\* The history file is absent at the start (it may have been removed between
\* sessions), or is one of the files above.
InitialFiles ==
    {<<r, NoHistory>> : r \in InitialRatesFiles}
    \cup {<<r, h>> : r \in {AbsentFile, FreshCoinGecko}, h \in InitialHistoryFiles}

\* The record of the last call made: its arguments, the files before it,
\* what it returned or raised, the report of the update cycle it ran (if any),
\* what happened to each client, the snapshot file as that cycle left it, and
\* the log of the calls made; for append_history, the records passed and, in
\* the report, the count returned.
Call(op, source, from_currency, to_currency, records, res, report, clients, update_raised, update_rates_file) ==
    [op |-> op,
     records |-> records,
     at |-> now,
     source |-> source,
     from_currency |-> from_currency,
     to_currency |-> to_currency,
     pre_rates_file |-> rates_file,
     pre_history_file |-> history_file,
     raised |-> res.raised,
     rate |-> res.rate,
     updated_at |-> res.updated_at,
     report |-> report,
     clients |-> clients,
     update_raised |-> update_raised,
     update_rates_file |-> update_rates_file,
     log |-> res.log]

NoCall ==
    [op |-> "none", records |-> <<>>, at |-> 0, source |-> None, from_currency |-> "", to_currency |-> "",
     pre_rates_file |-> AbsentFile, pre_history_file |-> HistoryFile("absent", <<>>),
     raised |-> "none", rate |-> One, updated_at |-> Null, report |-> NoReport,
     clients |-> [c \in ClientSet |-> NotCalled], update_raised |-> "not_run",
     update_rates_file |-> AbsentFile, log |-> <<>>]

\* The two threads that write the snapshot file: the scheduler's thread and
\* the foreground (the CLI).
Writers == {"scheduler", "foreground"}

\* A writer that has no job: its position, the job and its argument, the
\* locals all_rates and the report of run_update, the exception that ended
\* the job, the snapshot file as save_current_rates loaded it, the data
\* get_fresh_rate is about to save, and where the file it has open is now.
IdleWriter ==
    [pc |-> "idle", op |-> "none", source |-> None, all_rates |-> EmptyPairs,
     report |-> NoReport, raised |-> "none", loaded |-> AbsentFile,
     data |-> AbsentFile, fd |-> "none"]

\* One thread, one call at a time: no temporary file is left and no other
\* writer runs.
Sequential ==
    /\ tmp_file = AbsentFile
    /\ writers = [w \in Writers |-> IdleWriter]
    /\ request = NoRequest
    /\ scheduler = NewScheduler
    /\ cli = NewCli

Init ==
    /\ \E files \in InitialFiles :
        /\ rates_file = files[1]
        /\ history_file = files[2]
    /\ now = 0
    /\ calls = 0
    /\ last = NoCall
    /\ Sequential

\* The CLI has printed the answer of the last call and waits for a command.
Idle == last.op = "none"

\* The last call's answer is printed and forgotten.
Return ==
    /\ ~Idle
    /\ last' = NoCall
    /\ UNCHANGED <<rates_file, history_file, now, calls, beside_session>>

\* The clock advances.
Tick ==
    /\ Idle
    /\ now < MaxTime
    /\ now' = now + 1
    /\ UNCHANGED <<rates_file, history_file, calls, last, beside_session>>

\* The provider answers that matter to a cycle over the given clients: a
\* client that is not asked is down.
ResponsesFor(clients) ==
    {r \in Responses :
        /\ "coingecko" \notin clients => r.coingecko = CoinGeckoDown
        /\ "exchangerate" \notin clients => r.exchangerate = ExchangeRateDown}

\* The clients whose history recording can fail: those asked that returned
\* rates to record.
Recording(clients, resps) ==
    {c \in clients : fetch_rates(c, resps).rates # <<>>}

SetOf(seq) == {seq[i] : i \in 1..Len(seq)}

\* update-rates: RatesUpdater.run_update(source).
RunUpdate ==
    /\ Idle
    /\ calls < MaxCalls
    /\ \E source \in SourceArgs :
       \E resps \in ResponsesFor(SetOf(select_clients(source).clients)) :
       \E rec_fails \in SUBSET Recording(SetOf(select_clients(source).clients), resps) :
       \E upd \in {run_update(rates_file, history_file, <<>>, source, resps, now, rec_fails)} :
            /\ Len(load_historical_data(upd.history_file)) <= MaxHistory
            /\ rates_file' = upd.rates_file
            /\ history_file' = upd.history_file
            /\ last' = Call("run_update", source, "", "", <<>>,
                            [raised |-> upd.raised, rate |-> One, updated_at |-> Null,
                             log |-> upd.log],
                            upd.report, upd.clients, upd.raised, upd.rates_file)
            /\ calls' = calls + 1
            /\ UNCHANGED <<now, beside_session>>

\* Whether get_rate on these arguments reaches the update cycle.
Refreshes(from_currency, to_currency) ==
    get_rate(rates_file, history_file, from_currency, to_currency,
             [coingecko |-> CoinGeckoDown, exchangerate |-> ExchangeRateDown],
             now, {}).update.raised # "not_run"

\* get-rate: get_rate(from_currency, to_currency).
GetRate ==
    /\ Idle
    /\ calls < MaxCalls
    /\ \E req \in Requests :
       \E resps \in ResponsesFor(IF Refreshes(req[1], req[2]) THEN ClientSet ELSE {}) :
       \E rec_fails \in SUBSET Recording(IF Refreshes(req[1], req[2])
                                         THEN ClientSet ELSE {}, resps) :
       \E res \in {get_rate(rates_file, history_file, req[1], req[2], resps, now, rec_fails)} :
            /\ Len(load_historical_data(res.history_file)) <= MaxHistory
            /\ rates_file' = res.rates_file
            /\ history_file' = res.history_file
            /\ last' = Call("get_rate", None, req[1], req[2], <<>>, res,
                            res.update.report, res.update.clients, res.update.raised,
                            res.update.rates_file)
            /\ calls' = calls + 1
            /\ UNCHANGED <<now, beside_session>>

\* The record lists passed to append_history at the current instant.
RecordLists ==
    LET btc == HistoryRecord([pair |-> PairKey("BTC", "USD"), rate |-> Rat(2, 1)], "coingecko", now)
        eur == HistoryRecord([pair |-> PairKey("EUR", "USD"), rate |-> Rat(1, 2)], "exchangerate", now)
    IN  {<<>>, <<btc>>, <<eur, btc>>}

\* RatesStorage.append_history(records).
AppendHistory ==
    /\ Idle
    /\ calls < MaxCalls
    /\ \E records \in RecordLists :
       \E res \in {append_history(history_file, records)} :
            /\ Len(load_historical_data(res.file)) <= MaxHistory
            /\ history_file' = res.file
            /\ last' = Call("append_history", None, "", "", records,
                            [raised |-> "none", rate |-> One, updated_at |-> Null,
                             log |-> <<<<"append_history", "storage">>>>],
                            [NoReport EXCEPT !.history_added = res.count],
                            [c \in ClientSet |-> NotCalled], "not_run", AbsentFile)
            /\ calls' = calls + 1
            /\ UNCHANGED <<rates_file, now, beside_session>>

Next == Tick \/ RunUpdate \/ GetRate \/ AppendHistory \/ Return

Spec == Init /\ [][Next]_vars

\* ------------------------------------------------------ concurrent writers
\* Two threads run update cycles and resolutions side by side, one file
\* operation at a time.  Every writer names its temporary file
\* f"{rates_file_path}.tmp": the same path.

\* What open(path, "w") leaves: a zero-length file.  It is not JSON; unlike
\* other such content there is nothing in it for a write at offset 0 to
\* leave behind.
TruncatedFile ==
    [kind |-> "corrupt", pairs |-> EmptyPairs, last_refresh |-> Null, source |-> "<empty>"]

\* The source arguments of the cycles a writer runs: the scheduler calls
\* run_update(), the foreground update-rates with a source.
WriterSources(w) == IF w = "scheduler" THEN {None} ELSE {"coingecko", "exchangerate"}

\* The pair the foreground resolves.
ResolveRequest == <<"BTC", "EUR">>

\* The providers answer, or are down.
WriterResponses == {AllUp, AllDown}

\* The snapshot files found when the writers start: none, or a fresh one.
InitialSnapshots == {AbsentFile, FreshCoinGecko}

InitWriters ==
    /\ rates_file \in InitialSnapshots
    /\ history_file = NoHistory
    /\ now = 0
    /\ calls = 0
    /\ last = NoCall
    /\ tmp_file = AbsentFile
    /\ writers = [w \in Writers |-> IdleWriter]
    /\ request = NoRequest
    /\ scheduler = NewScheduler
    /\ cli = NewCli

\* The writer can start a job.
Free(w) == writers[w].pc \in {"idle", "done"} /\ calls < MaxJobs

\* The job ends: it returns, or raises.
Done(writer, raised) == [writer EXCEPT !.pc = "done", !.raised = raised, !.fd = "none"]

\* The loop of run_update has run for a job: with rates to persist the job
\* goes on to save_current_rates; with none run_update returns its report.
AfterLoop(op, source, acc, n_clients) ==
    [IdleWriter EXCEPT
        !.pc = IF Persists(acc.all_rates) THEN "fetched"
               ELSE IF op = "get_rate" THEN "saved" ELSE "done",
        !.op = op,
        !.source = source,
        !.all_rates = acc.all_rates,
        !.report = FinishUpdate(acc, source, n_clients, now).report]

\* run_update(source) up to the end of its loop.
StartUpdate(w) ==
    /\ Free(w)
    /\ \E source \in WriterSources(w), resps \in WriterResponses :
       \E clients \in {select_clients(source).clients} :
       \E acc \in {UpdateLoop(StartOfUpdate(rates_file, history_file, <<>>), clients, 1,
                              resps, now, {})} :
            /\ writers' = [writers EXCEPT ![w] = AfterLoop("run_update", source, acc,
                                                           Len(clients))]
            /\ history_file' = acc.history_file
    /\ calls' = calls + 1
    /\ UNCHANGED <<rates_file, tmp_file, beside_writers>>

\* get_fresh_rate up to the end of the loop of the cycle it starts: it reads
\* the cache and, without a fresh answer, runs run_update().
StartResolve(w) ==
    /\ w = "foreground"
    /\ Free(w)
    /\ \E resps \in WriterResponses :
       \E first \in {load_file(rates_file)} :
            IF first.raised
            THEN /\ writers' = [writers EXCEPT ![w] =
                                    Done([IdleWriter EXCEPT !.op = "get_rate"],
                                         "JSONDecodeError")]
                 /\ UNCHANGED history_file
            ELSE IF CacheLookup(rates_pairs_of(first.data), ResolveRequest[1],
                                ResolveRequest[2], now).hit # "none"
            THEN /\ writers' = [writers EXCEPT ![w] =
                                    Done([IdleWriter EXCEPT !.op = "get_rate"], "none")]
                 /\ UNCHANGED history_file
            ELSE \E acc \in {UpdateLoop(StartOfUpdate(rates_file, history_file, <<>>),
                                        Clients, 1, resps, now, {})} :
                    /\ writers' = [writers EXCEPT ![w] =
                                        AfterLoop("get_rate", None, acc, Len(Clients))]
                    /\ history_file' = acc.history_file
    /\ calls' = calls + 1
    /\ UNCHANGED <<rates_file, tmp_file, beside_writers>>

\* save_current_rates: existing_data = self.load_current_rates().
Load(w) ==
    /\ writers[w].pc = "fetched"
    /\ writers' = [writers EXCEPT ![w].pc = "loaded", ![w].loaded = rates_file]
    /\ UNCHANGED <<rates_file, history_file, calls, beside_writers, tmp_file>>

\* save_current_rates: open(temp_file, "w") creates the temporary file or
\* empties the one that is there.
OpenTemp(w) ==
    /\ writers[w].pc = "loaded"
    /\ tmp_file' = TruncatedFile
    /\ writers' = [writers EXCEPT ![w].pc = "opened", ![w].fd = "tmp"]
    /\ UNCHANGED <<rates_file, history_file, calls, beside_writers>>

\* What a file holds after data is written at its start: the data, or, when
\* the file already held something, possibly the data followed by the rest
\* of what it held.
Written(held, data) == IF held = TruncatedFile THEN {data} ELSE {data, CorruptFile}

\* Mutant of WrittenBy: the data is merged into the file as it is on disk at
\* the time of writing.
WrittenBy_OnDisk(loaded, on_disk, rates, source, t) ==
    save_current_rates(on_disk, rates, source, t)

\* current_data of save_current_rates: built from the snapshot it loaded,
\* whatever the file holds by the time it is written.
WrittenBy(loaded, on_disk, rates, source, t) ==
    save_current_rates(loaded, rates, source, t)

\* json.dump on the file the writer has open, then close: the file is the
\* temporary file, or the snapshot file if another writer renamed it
\* meanwhile, or no file any more.
WriteOpenFile(w, data) ==
    /\ writers[w].fd = "tmp" =>
            /\ tmp_file' \in Written(tmp_file, data)
            /\ UNCHANGED rates_file
    /\ writers[w].fd = "target" =>
            /\ rates_file' \in Written(rates_file, data)
            /\ UNCHANGED tmp_file
    /\ writers[w].fd \notin {"tmp", "target"} => UNCHANGED <<rates_file, tmp_file>>

\* save_current_rates: json.dump(current_data, file).
DumpTemp(w) ==
    /\ writers[w].pc = "opened"
    /\ WriteOpenFile(w, WrittenBy(writers[w].loaded, rates_file, writers[w].all_rates,
                                  SourceStr(writers[w].source), now))
    /\ writers' = [writers EXCEPT ![w].pc = "dumped", ![w].fd = "none"]
    /\ UNCHANGED <<history_file, calls, beside_writers>>

\* Where an open file is after os.replace(temp_file, rates_file_path): the
\* temporary file became the snapshot file, the old snapshot file is gone.
Renamed(fd) == IF fd = "tmp" THEN "target" ELSE IF fd = "target" THEN "orphan" ELSE fd

\* save_current_rates: os.replace(temp_file, self.rates_file_path); it raises
\* FileNotFoundError when the temporary file is not there.  After it
\* run_update returns its report; get_fresh_rate goes on.
Replace(w) ==
    /\ writers[w].pc = "dumped"
    /\ IF tmp_file.kind = "absent"
       THEN /\ writers' = [writers EXCEPT ![w] = Done([@ EXCEPT !.report = NoReport],
                                                     "FileNotFoundError")]
            /\ UNCHANGED <<rates_file, tmp_file>>
       ELSE /\ rates_file' = tmp_file
            /\ tmp_file' = AbsentFile
            /\ writers' = [v \in Writers |->
                    IF v = w
                    THEN [writers[v] EXCEPT
                            !.pc = IF writers[v].op = "get_rate" THEN "saved" ELSE "done"]
                    ELSE [writers[v] EXCEPT !.fd = Renamed(@)]]
    /\ UNCHANGED <<history_file, calls, beside_writers>>

\* get_fresh_rate after the cycle: fetch_rate_from_parser computes the rate
\* from the snapshot storage loads, then the cache is read again and either
\* answers or gets the computed rate added.
Reload(w) ==
    /\ writers[w].pc = "saved"
    /\ \E got \in {[fetched |-> RateFromSnapshot(
                                    existing_pairs_of(load_current_rates(rates_file)),
                                    ResolveRequest[1], ResolveRequest[2]),
                     rates_file |-> rates_file, history_file |-> history_file,
                     log |-> <<>>, update |-> NoUpdate]} :
       \E ans \in {AfterRefresh(got, ResolveRequest[1], ResolveRequest[2], now)} :
            writers' = [writers EXCEPT ![w] =
                IF ans.raised = "none" /\ ans.log = <<<<"load_file", "rates_file">>,
                                                      <<"save_file", "rates_file">>>>
                THEN [@ EXCEPT !.pc = "resolved", !.data = ans.rates_file]
                ELSE Done(@, ans.raised)]
    /\ UNCHANGED <<rates_file, history_file, calls, beside_writers, tmp_file>>

\* DatabaseManager.save_file: open(file_path, "w") empties the snapshot file
\* in place.
OpenTarget(w) ==
    /\ writers[w].pc = "resolved"
    /\ rates_file' = TruncatedFile
    /\ writers' = [writers EXCEPT ![w].pc = "target_opened", ![w].fd = "target"]
    /\ UNCHANGED <<history_file, calls, beside_writers, tmp_file>>

\* DatabaseManager.save_file: json.dump(data, f).
DumpTarget(w) ==
    /\ writers[w].pc = "target_opened"
    /\ WriteOpenFile(w, writers[w].data)
    /\ writers' = [writers EXCEPT ![w] = Done(@, "none")]
    /\ UNCHANGED <<history_file, calls, beside_writers>>

NextWriters ==
    \E w \in Writers :
        \/ StartUpdate(w)
        \/ StartResolve(w)
        \/ Load(w)
        \/ OpenTemp(w)
        \/ DumpTemp(w)
        \/ Replace(w)
        \/ Reload(w)
        \/ OpenTarget(w)
        \/ DumpTarget(w)

SpecWriters == InitWriters /\ [][NextWriters]_vars

\* ----------------------------------------------------------- HTTP requests
\* One call of BaseApiClient._make_request, one HTTP attempt or sleep at a
\* time; nothing else runs.
beside_request ==
    <<rates_file, history_file, now, calls, last, tmp_file, writers, scheduler, cli>>

InitRequest ==
    /\ rates_file = AbsentFile
    /\ history_file = NoHistory
    /\ now = 0
    /\ calls = 0
    /\ last = NoCall
    /\ tmp_file = AbsentFile
    /\ writers = [w \in Writers |-> IdleWriter]
    /\ request = NoRequest
    /\ scheduler = NewScheduler
    /\ cli = NewCli

\* A client calls _make_request(url, params): the loop starts at attempt 0.
MakeRequest ==
    /\ request.pc = "none"
    /\ \E c \in ClientSet : request' = [NoRequest EXCEPT !.pc = "attempting", !.client = c]
    /\ UNCHANGED beside_request

\* The except branch of the loop body: ApiRequestError on the last attempt,
\* else a sleep.
Failed(req) ==
    IF LastAttempt(req.attempt)
    THEN [req EXCEPT !.pc = "raised", !.raised = "ApiRequestError"]
    ELSE [req EXCEPT !.pc = "sleeping"]

\* The JSON bodies a provider answers with.
Bodies(client) ==
    IF client = "coingecko" THEN CoinGeckoResponses \ {CoinGeckoDown}
    ELSE (ExchangeRateResponses \ {ExchangeRateDown})
            \cup {ExchangeRateAnswer("success", Huge)}

\* The try block of the loop body: session.get, raise_for_status,
\* return response.json().
Attempt ==
    /\ request.pc = "attempting"
    /\ \E outcome \in AttemptOutcomes :
       \E made \in {[request EXCEPT !.outcomes = Append(@, outcome)]} :
            \/ /\ outcome = "ok"
               /\ \E body \in Bodies(made.client) :
                    request' = [made EXCEPT !.pc = "returned",
                                            !.returned = made.attempt + 1,
                                            !.body = <<body>>]
            \/ /\ outcome \in {"timeout", "http_error"}
               /\ request' = Failed(made)
            \/ /\ outcome = "bad_json"
               /\ \E exc \in BadJsonRaises :
                    request' = IF exc = "RequestException" THEN Failed(made)
                               ELSE [made EXCEPT !.pc = "raised", !.raised = exc]
    /\ UNCHANGED beside_request

\* time.sleep(self.config.RETRY_DELAY), then the next iteration of the loop,
\* or the raise after the loop when range(MAX_RETRIES) is used up.
Sleep ==
    /\ request.pc = "sleeping"
    /\ request' = IF request.attempt + 1 < MAX_RETRIES
                  THEN [request EXCEPT !.pc = "attempting", !.attempt = @ + 1,
                                       !.slept = @ + RETRY_DELAY]
                  ELSE [request EXCEPT !.pc = "raised", !.raised = "ApiRequestError",
                                       !.attempt = @ + 1, !.slept = @ + RETRY_DELAY]
    /\ UNCHANGED beside_request

\* The fetch_rates that called _make_request goes on: it builds the rates
\* from the JSON, or raises ApiRequestError for whatever was raised.
FetchRates ==
    /\ request.pc \in {"returned", "raised"}
    /\ request' =
        [request EXCEPT
            !.pc = "fetched",
            !.fetched = IF request.pc = "raised" THEN <<Raised>>
                        ELSE IF request.client = "coingecko"
                        THEN <<fetch_rates("coingecko",
                                           [coingecko |-> request.body[1],
                                            exchangerate |-> ExchangeRateDown])>>
                        ELSE <<fetch_rates("exchangerate",
                                           [coingecko |-> CoinGeckoDown,
                                            exchangerate |-> request.body[1]])>>]
    /\ UNCHANGED beside_request

NextRequest == MakeRequest \/ Attempt \/ Sleep \/ FetchRates

\* session.get has a timeout and time.sleep ends: a step that can be taken is
\* taken.
SpecRequest == InitRequest /\ [][NextRequest]_vars /\ WF_vars(NextRequest)

\* ------------------------------------------------------- scheduler threads
\* One caller makes start() and stop() calls on a RatesScheduler while the
\* threads it created run _run, one step at a time.
beside_scheduler == <<now, calls, last, tmp_file, writers, request, cli>>

InitScheduler ==
    /\ rates_file \in InitialSnapshots
    /\ history_file = NoHistory
    /\ now = 0
    /\ calls = 0
    /\ last = NoCall
    /\ tmp_file = AbsentFile
    /\ writers = [w \in Writers |-> IdleWriter]
    /\ request = NoRequest
    /\ scheduler = NewScheduler
    /\ cli = NewCli

\* The caller is not inside stop() and may make another call.
CanCall == ~scheduler.joining /\ scheduler.starts + scheduler.stops < MaxOps

\* RatesScheduler.start(): a warning when the thread is alive; else the
\* stop_event is cleared and a new thread starts at the top of _run.
Start ==
    /\ CanCall
    /\ scheduler' =
        IF IsAlive(scheduler.threads)
        THEN [scheduler EXCEPT !.starts = @ + 1, !.warnings = @ + 1, !.stopped = FALSE]
        ELSE [scheduler EXCEPT !.starts = @ + 1, !.stop_event = FALSE,
                               !.threads = Append(@, "test"), !.stopped = FALSE]
    /\ UNCHANGED <<rates_file, history_file, beside_scheduler>>

\* RatesScheduler.stop() up to thread.join(timeout=5): the stop_event is set;
\* without a thread stop() returns at once.
StopSet ==
    /\ CanCall
    /\ scheduler' =
        IF scheduler.threads = <<>>
        THEN [scheduler EXCEPT !.stops = @ + 1, !.stop_event = TRUE, !.stopped = TRUE]
        ELSE [scheduler EXCEPT !.stops = @ + 1, !.stop_event = TRUE, !.joining = TRUE]
    /\ UNCHANGED <<rates_file, history_file, beside_scheduler>>

\* thread.join(timeout=5) ends and stop() returns: the thread has ended, or
\* five seconds have passed while it is in an update cycle (one HTTP attempt
\* alone may take REQUEST_TIMEOUT = 10 seconds).
StopReturn ==
    /\ scheduler.joining
    /\ scheduler.threads[Len(scheduler.threads)] \in {"dead", "cycle"}
    /\ scheduler' = [scheduler EXCEPT !.joining = FALSE, !.stopped = TRUE]
    /\ UNCHANGED <<rates_file, history_file, beside_scheduler>>

\* _run, the test of the while loop: the thread ends, or enters run_once.
Test(i) ==
    /\ i <= Len(scheduler.threads)
    /\ scheduler.threads[i] = "test"
    /\ IF LoopGoesOn(scheduler.stop_event)
       THEN /\ scheduler.cycles < MaxCycles
            /\ scheduler' = [scheduler EXCEPT !.threads[i] = "cycle", !.cycles = @ + 1]
       ELSE scheduler' = [scheduler EXCEPT !.threads[i] = "dead"]
    /\ UNCHANGED <<rates_file, history_file, beside_scheduler>>

\* Mutant of AfterCycle: an exception of the cycle escapes run_once and ends
\* the thread.
AfterCycle_Uncaught(raised) == IF raised THEN "dead" ELSE "wait"

\* Where the thread is after run_once: except Exception logs the error, so
\* in either case _run goes on to stop_event.wait.
AfterCycle(raised) == "wait"

\* run_once: self.updater.run_update() runs to its end, or raises when the
\* snapshot cannot be saved; the exception is logged.  Then the thread
\* enters stop_event.wait(update_interval).
CycleEnd(i) ==
    /\ i <= Len(scheduler.threads)
    /\ scheduler.threads[i] = "cycle"
    /\ \E resps \in WriterResponses, save_raises \in BOOLEAN :
       \E upd \in {run_update(rates_file, history_file, <<>>, None, resps, now, {})} :
            /\ save_raises => upd.rates_file # rates_file
            /\ history_file' = upd.history_file
            /\ rates_file' = IF save_raises THEN rates_file ELSE upd.rates_file
            /\ scheduler' = [scheduler EXCEPT
                                !.threads[i] = AfterCycle(save_raises),
                                !.errors = IF save_raises THEN @ + 1 ELSE @]
    /\ UNCHANGED beside_scheduler

\* stop_event.wait(self.update_interval) returns: the event is set, or the
\* interval has passed.
WaitOver(i) ==
    /\ i <= Len(scheduler.threads)
    /\ scheduler.threads[i] = "wait"
    /\ scheduler' = [scheduler EXCEPT !.threads[i] = "test"]
    /\ UNCHANGED <<rates_file, history_file, beside_scheduler>>

\* The steps of the i-th thread created.
Worker(i) == Test(i) \/ CycleEnd(i) \/ WaitOver(i)

NextScheduler == Start \/ StopSet \/ StopReturn \/ \E i \in 1..MaxOps : Worker(i)

\* Every thread gets to run, and an update cycle ends.
SpecScheduler ==
    InitScheduler /\ [][NextScheduler]_vars /\ \A i \in 1..MaxOps : WF_vars(Worker(i))

\* ------------------------------------------------------------ CLI commands
\* One user types commands into a CLIInterface; each command is processed
\* to its end before the next.
beside_cli == <<now, calls, last, tmp_file, writers, request, scheduler>>

\* The files an earlier session left: alice registered, deposited 2 USD
\* twice and bought 1 BTC at the rate 2.
Registered == signup(UsersFile("absent", <<>>), PortfoliosFile("absent", <<>>), "alice", "pass1", "s1", NoFaults)

Funded ==
    deposit_usd(deposit_usd(Registered.portfolios_file, AbsentFile, NoHistory, At(1),
                            ToFloat("2"), "none").portfolios_file,
                AbsentFile, NoHistory, At(1), ToFloat("2"), "none").portfolios_file

Traded == buy(Funded, FreshCoinGecko, NoHistory, At(1), "BTC", "1", AllDown, 0, "none").portfolios_file

\* The users file and the portfolios file found at the start: none; those
\* of the earlier session; and those of the earlier session with the users
\* file cut short by a save_file whose write failed after open(file_path, "w")
\* had truncated it.
InitialAccounts ==
    {<<UsersFile("absent", <<>>), PortfoliosFile("absent", <<>>)>>,
     <<Registered.users_file, Traded>>,
     <<CutShort(Registered.users_file), Traded>>}

InitialCaches == {AbsentFile, FreshCoinGecko, FreshZero}

InitCli ==
    /\ rates_file \in InitialCaches
    /\ history_file = NoHistory
    /\ now = 0
    /\ calls = 0
    /\ last = NoCall
    /\ tmp_file = AbsentFile
    /\ writers = [w \in Writers |-> IdleWriter]
    /\ request = NoRequest
    /\ scheduler = NewScheduler
    /\ \E files \in InitialAccounts :
          cli = [NewCli EXCEPT !.users_file = files[1], !.portfolios_file = files[2]]

\* The strings given as --currency.
CurrencyCmdArgs == {"BTC", "EUR", "USD", "XXX"}

\* The session after a command was processed.
Processed(current_user, ufile, pfile, command) ==
    [current_user |-> current_user, users_file |-> ufile, portfolios_file |-> pfile,
     commands |-> cli.commands + 1, last |-> command]

\* The message for what a portfolio operation raised or returned.
Message(out) == IF out.raised # "none" THEN out.raised ELSE out.msg

\* register --username u --password p
Register ==
    /\ cli.commands < MaxCommands
    /\ \E u \in Usernames, p \in Passwords, salt \in Salts :
       \E faults \in SignupFaults :
       \E res \in {signup(cli.users_file, cli.portfolios_file, u, p, salt, faults)} :
            cli' = Processed(cli.current_user, res.users_file, res.portfolios_file,
                             Command("register", u, p, "", "", res.ok, res.msg, One))
    /\ UNCHANGED <<rates_file, history_file, beside_cli>>

\* login --username u --password p
Login ==
    /\ cli.commands < MaxCommands
    /\ \E u \in Usernames, p \in Passwords :
       \E res \in {login(cli.users_file, u, p)} :
            cli' = Processed(IF res.ok THEN res.user_id ELSE cli.current_user,
                             cli.users_file, cli.portfolios_file,
                             Command("login", u, p, "", "", res.ok, res.msg, One))
    /\ UNCHANGED <<rates_file, history_file, beside_cli>>

\* A command refused because nobody is logged in.
Refused(command, currency, amount) ==
    /\ cli' = Processed(cli.current_user, cli.users_file, cli.portfolios_file,
                        Command(command, "", "", currency, amount, FALSE, "login_first", One))
    /\ UNCHANGED <<rates_file, history_file>>

\* A command that ended with the given outcome of the portfolio service.
Served(command, currency, amount, out) ==
    /\ cli' = Processed(cli.current_user, cli.users_file, out.portfolios_file,
                        Command(command, "", "", currency, amount,
                                out.raised = "none" /\ out.ok, Message(out), out.rate))
    /\ rates_file' = out.rates_file
    /\ history_file' = out.history_file

\* A command that ended in the CLI with a message, before any service call.
Answered(command, currency, amount, msg) ==
    /\ cli' = Processed(cli.current_user, cli.users_file, cli.portfolios_file,
                        Command(command, "", "", currency, amount, FALSE, msg, One))
    /\ UNCHANGED <<rates_file, history_file>>

\* deposit --amount a; the parser converts the amount with float.
Deposit ==
    /\ cli.commands < MaxCommands
    /\ \E a \in AmountArgs, fault \in SaveFaults :
          IF LoggedOut(cli.current_user) THEN Refused("deposit", "", a)
          ELSE IF ToFloat(a).raised THEN Answered("deposit", "", a, "format")
          ELSE \E out \in {deposit_usd(cli.portfolios_file, rates_file, history_file,
                                        cli.current_user, ToFloat(a), fault)} :
                  Served("deposit", "", a, out)
    /\ UNCHANGED beside_cli

\* buy --currency c --amount a
Buy ==
    /\ cli.commands < MaxCommands
    /\ \E c \in CurrencyCmdArgs, a \in AmountArgs :
       \E resps \in WriterResponses, fault \in SaveFaults :
          IF LoggedOut(cli.current_user) THEN Refused("buy", c, a)
          ELSE IF c = "USD" THEN Answered("buy", c, a, "not_usd")
          ELSE \E out \in {buy(cli.portfolios_file, rates_file, history_file,
                                cli.current_user, c, a, resps, now, fault)} :
                  Served("buy", c, a, out)
    /\ UNCHANGED beside_cli

\* sell --currency c --amount a
Sell ==
    /\ cli.commands < MaxCommands
    /\ \E c \in CurrencyCmdArgs, a \in AmountArgs :
       \E resps \in WriterResponses, fault \in SaveFaults :
          IF LoggedOut(cli.current_user) THEN Refused("sell", c, a)
          ELSE IF c = "USD" THEN Answered("sell", c, a, "not_usd")
          ELSE \E out \in {sell(cli.portfolios_file, rates_file, history_file,
                                 cli.current_user, c, a, resps, now, fault)} :
                  Served("sell", c, a, out)
    /\ UNCHANGED beside_cli

\* show-portfolio: after get_portfolio returned its (success, message,
\* portfolio), data.get raises on the message and the error is reported.
ShowPortfolio ==
    /\ cli.commands < MaxCommands
    /\ \E resps \in WriterResponses :
          IF LoggedOut(cli.current_user) THEN Refused("show-portfolio", "", "")
          ELSE \E out \in {get_portfolio(cli.users_file, cli.portfolios_file, rates_file,
                                          history_file, cli.current_user, resps, now)} :
                  Served("show-portfolio", "", "",
                         [out EXCEPT !.raised = IF @ = "none" THEN "AttributeError" ELSE @])
    /\ UNCHANGED beside_cli

\* get-rate --from c --to USD: no login is asked for.
GetRateCommand ==
    /\ cli.commands < MaxCommands
    /\ \E c \in CurrencyCmdArgs, resps \in WriterResponses :
       \E got \in {get_rate(rates_file, history_file, c, "USD", resps, now, {})} :
          Served("get-rate", c, "",
                 Outcome(got.raised, got.raised = "none", "rate", cli.portfolios_file,
                         got.rates_file, got.history_file, got.rate))
    /\ UNCHANGED beside_cli

NextCli == Register \/ Login \/ Deposit \/ Buy \/ Sell \/ ShowPortfolio \/ GetRateCommand

SpecCli == InitCli /\ [][NextCli]_vars

\* ------------------------------------------------------- update cycle claims
\* The last call was run_update(source) and it selected clients.
UpdateCall(source) == last.op = "run_update" /\ last.source = source

Selected == SetOf(select_clients(last.source).clients)

FetchRaised(c) == last.clients[c].status = "fetch_raised"

\* The client's iteration completed: fetch_rates returned and its history was
\* recorded.
Completed(c) == last.clients[c].status = "returned"

NumPairs(c) == Len(last.clients[c].rates)

InLog(event) == \E i \in 1..Len(last.log) : last.log[i] = event

Count(event) == Cardinality({i \in 1..Len(last.log) : last.log[i] = event})

\* The pairs of a file as the storage component reads them.
StoredPairs(file) == IF file.kind = "snapshot" THEN file.pairs ELSE EmptyPairs

\* C1: after run_update() with no source filter in which the fetch of every
\* configured source raised, the snapshot file is what it was before the call,
\* no exception reached the caller, and the report has ok = false and
\* updated_pairs = 0.
C1_AllSourcesFail ==
    (UpdateCall(None) /\ \A c \in ClientSet : FetchRaised(c))
        => /\ last.raised = "none"
           /\ rates_file = last.pre_rates_file
           /\ last.report.ok = FALSE
           /\ last.report.updated_pairs = 0

\* C1 witness: every source raised on a snapshot that held pairs.
C1_Witness ==
    /\ UpdateCall(None)
    /\ \A c \in ClientSet : FetchRaised(c)
    /\ DOMAIN StoredPairs(last.pre_rates_file) # {}

\* C2: after run_update() with no source filter in which one source raised and
\* the other returned n >= 1 pairs (and its iteration completed), the report
\* has ok = true, failed_sources = [the failing source], updated_pairs = n.
C2_OneSourceFails ==
    \A bad \in ClientSet, good \in ClientSet :
        (UpdateCall(None) /\ bad # good /\ FetchRaised(bad)
         /\ Completed(good) /\ NumPairs(good) >= 1)
            => /\ last.raised = "none"
               /\ last.report.ok = TRUE
               /\ last.report.failed_sources = <<bad>>
               /\ last.report.updated_pairs = NumPairs(good)

\* C2 witness: CoinGecko returned two pairs and ExchangeRate raised.
C2_Witness ==
    /\ UpdateCall(None)
    /\ FetchRaised("exchangerate")
    /\ Completed("coingecko")
    /\ NumPairs("coingecko") = 2
    /\ last.report.updated_pairs = 2

\* C3: run_update(source) with a source that names no configured client fails
\* with ValueError before any client is called and changes neither the
\* snapshot file nor the history file.
C3_UnknownSource ==
    (last.op = "run_update" /\ last.source # None
     /\ StripLower(last.source) \notin ClientSet)
        => /\ last.raised = "ValueError"
           /\ \A c \in ClientSet : last.clients[c].calls = 0
           /\ last.log = <<>>
           /\ rates_file = last.pre_rates_file
           /\ history_file = last.pre_history_file

\* C3 witness: an unknown source was given while the snapshot held pairs.
C3_Witness ==
    /\ last.op = "run_update"
    /\ last.source = " Unknown"
    /\ last.raised = "ValueError"
    /\ DOMAIN StoredPairs(last.pre_rates_file) # {}

\* C4: for every run_update that returns, ok is true exactly when some
\* selected source did not fail and at least one pair was written to the
\* snapshot; a run whose only non-failing source returned no rates is not ok.
C4_OkIffSourceAndPair ==
    (last.op = "run_update" /\ last.raised = "none")
        => (last.report.ok
              <=> /\ \E c \in Selected :
                        /\ c \notin SetOf(last.report.failed_sources)
                        /\ last.clients[c].calls = 1
                  /\ InLog(<<"save_current_rates", SourceStr(last.source)>>)
                  /\ \E k \in DOMAIN StoredPairs(rates_file) :
                        rates_file.pairs[k].updated_at = At(last.at))

\* C4 witness: the only source that did not fail returned an empty rate map.
C4_Witness ==
    /\ UpdateCall(None)
    /\ FetchRaised("coingecko")
    /\ Completed("exchangerate")
    /\ NumPairs("exchangerate") = 0
    /\ last.report.ok = FALSE

\* The selected clients that ended in the except branch, in loop order.
RECURSIVE FailedInOrder(_, _)
FailedInOrder(clients, i) ==
    IF i > Len(clients) THEN <<>>
    ELSE (IF last.clients[clients[i]].status \in {"fetch_raised", "record_raised"}
          THEN <<clients[i]>> ELSE <<>>) \o FailedInOrder(clients, i + 1)

\* C5: in every update cycle each selected client has fetch_rates invoked
\* exactly once whatever happened to earlier clients; a client whose fetch or
\* history recording raised is appended to failed_sources, the remaining
\* clients are still attempted, and the exception does not reach the caller.
C5_FailuresIsolated ==
    (last.op = "run_update" /\ ~select_clients(last.source).raised)
        => /\ last.raised = "none"
           /\ \A c \in ClientSet :
                /\ last.clients[c].calls = (IF c \in Selected THEN 1 ELSE 0)
                /\ Count(<<"fetch_rates", c>>) = (IF c \in Selected THEN 1 ELSE 0)
           /\ last.report.failed_sources
                = FailedInOrder(select_clients(last.source).clients, 1)

\* C5 witness: the first client failed (in fetching or in recording) and the
\* second was still asked.
C5_Witness ==
    /\ UpdateCall(None)
    /\ last.clients["coingecko"].status \in {"fetch_raised", "record_raised"}
    /\ last.clients["exchangerate"].calls = 1
    /\ last.report.failed_sources[1] = "coingecko"

C5_WitnessRecording ==
    /\ UpdateCall(None)
    /\ last.clients["coingecko"].status = "record_raised"
    /\ last.clients["exchangerate"].status = "returned"

\* --------------------------------------------------------- resolution claims
FromCode == StripUpper(last.from_currency)

ToCode == StripUpper(last.to_currency)

\* The last call was get_rate on two different registered currencies, and the
\* cache file could be read.
Resolving ==
    /\ last.op = "get_rate"
    /\ FromCode \in RegisteredCurrencies
    /\ ToCode \in RegisteredCurrencies
    /\ FromCode # ToCode
    /\ last.pre_rates_file.kind # "corrupt"

\* The cached pairs before the call.
PreCache == last.pre_rates_file.pairs

\* The entry is no older than the TTL at the instant of the call.
WithinTTL(entry) ==
    entry.updated_at # Null /\ last.at - entry.updated_at[1] <= TTL

DirectFresh ==
    /\ PairKey(FromCode, ToCode) \in DOMAIN PreCache
    /\ WithinTTL(PreCache[PairKey(FromCode, ToCode)])

InverseFresh ==
    /\ PairKey(ToCode, FromCode) \in DOMAIN PreCache
    /\ WithinTTL(PreCache[PairKey(ToCode, FromCode)])

\* No update cycle ran and no file changed.
NoCycleNoWrite ==
    /\ last.update_raised = "not_run"
    /\ Count(<<"run_update", None>>) = 0
    /\ \A c \in ClientSet : last.clients[c].calls = 0
    /\ rates_file = last.pre_rates_file
    /\ history_file = last.pre_history_file

C7_RefreshBeforeAnswer ==
    /\ (Resolving /\ ~DirectFresh /\ ~InverseFresh)
          => /\ Count(<<"run_update", None>>) = 1
             /\ last.update_raised = "none"
             /\ \A c \in ClientSet :
                  last.clients[c].calls = 1 /\ Count(<<"fetch_rates", c>>) = 1
             /\ last.log[1] = <<"load_file", "rates_file">>
             /\ last.log[2] = <<"run_update", None>>
    /\ last.op = "get_rate"
          => /\ Count(<<"run_update", None>>) <= 1
             /\ \A c \in ClientSet : Count(<<"fetch_rates", c>>) <= 1

\* C7 witness: a stale direct entry, a cycle, then an answer.
C7_Witness ==
    /\ Resolving
    /\ PairKey(FromCode, ToCode) \in DOMAIN PreCache
    /\ ~DirectFresh
    /\ ~InverseFresh
    /\ last.raised = "none"
    /\ Count(<<"run_update", None>>) = 1

\* C7 witness: an entry whose timestamp does not parse.
C7_WitnessNoTimestamp ==
    /\ Resolving
    /\ PairKey(FromCode, ToCode) \in DOMAIN PreCache
    /\ PreCache[PairKey(FromCode, ToCode)].updated_at = Null
    /\ Count(<<"run_update", None>>) = 1

\* C8: when the direct pair is stale or missing and the inverse pair is cached,
\* fresh and has a non-zero rate r, get_rate returns 1/r with the inverse
\* entry's updated_at and runs no update cycle.
C8_FreshInverseReciprocal ==
    (Resolving /\ ~DirectFresh /\ InverseFresh
     /\ PreCache[PairKey(ToCode, FromCode)].rate[1] # 0)
        => /\ last.raised = "none"
           /\ last.rate = Rat(PreCache[PairKey(ToCode, FromCode)].rate[2],
                              PreCache[PairKey(ToCode, FromCode)].rate[1])
           /\ last.updated_at = PreCache[PairKey(ToCode, FromCode)].updated_at
           /\ NoCycleNoWrite

\* C8 witness: a stale direct pair and a fresh inverse pair with rate # 1.
C8_Witness ==
    /\ Resolving
    /\ PairKey(FromCode, ToCode) \in DOMAIN PreCache
    /\ ~DirectFresh
    /\ InverseFresh
    /\ PreCache[PairKey(ToCode, FromCode)].rate \notin {Rat(0, 1), Rat(1, 1)}
    /\ last.raised = "none"

\* C9: get_rate(c, c) for a registered currency c (after normalisation of both
\* arguments) succeeds with rate 1.0, reads and writes no data file and makes
\* no network request.
C9_SameCurrency ==
    (last.op = "get_rate" /\ FromCode = ToCode /\ FromCode \in RegisteredCurrencies)
        => /\ last.raised = "none"
           /\ last.rate = Rat(1, 1)
           /\ last.log = <<>>
           /\ NoCycleNoWrite

\* C9 witness: the two arguments differ as strings and name the same currency.
C9_Witness ==
    /\ last.op = "get_rate"
    /\ last.from_currency # last.to_currency
    /\ FromCode = ToCode
    /\ FromCode \in RegisteredCurrencies
    /\ last.raised = "none"

\* The snapshot as storage reads it after the update cycle of the call.
Refreshed == StoredPairs(last.update_rates_file)

PositiveLeg(code) ==
    /\ PairKey(code, "USD") \in DOMAIN Refreshed
    /\ Refreshed[PairKey(code, "USD")].rate[1] > 0

\* The USD legs that triangulation needs for the requested pair.
LegsUsable ==
    IF FromCode = "USD" THEN PositiveLeg(ToCode)
    ELSE IF ToCode = "USD" THEN PositiveLeg(FromCode)
    ELSE PositiveLeg(FromCode) /\ PositiveLeg(ToCode)

\* C10: if after the refresh attempt the snapshot holds neither the direct pair
\* nor usable positive USD legs for the requested currencies, the resolution
\* fails with ApiRequestError and get_fresh_rate writes nothing to the
\* snapshot file (the file is as the update cycle left it).
C10_Unavailable ==
    (Resolving /\ last.update_raised = "none"
     /\ PairKey(FromCode, ToCode) \notin DOMAIN Refreshed
     /\ ~LegsUsable)
        => /\ last.raised = "ApiRequestError"
           /\ rates_file = last.update_rates_file
           /\ ~InLog(<<"save_file", "rates_file">>)

\* C10 witness: a leg is cached with a zero rate, so it is not usable.
C10_Witness ==
    /\ Resolving
    /\ last.update_raised = "none"
    /\ PairKey(FromCode, ToCode) \notin DOMAIN Refreshed
    /\ \E code \in {FromCode, ToCode} :
          /\ PairKey(code, "USD") \in DOMAIN Refreshed
          /\ Refreshed[PairKey(code, "USD")].rate[1] = 0
    /\ last.raised = "ApiRequestError"

\* The rate stored for code against USD in the snapshot after the refresh.
LegRate(code) == Refreshed[PairKey(code, "USD")].rate

\* C11: when after the refresh the snapshot lacks the direct pair but holds
\* the positive USD legs the pair needs, the resolved rate is
\* rate(FROM_USD) / rate(TO_USD), and 1 / rate(TO_USD) when FROM is USD; when
\* TO is USD and FROM_USD is stored with a positive rate, the resolved rate is
\* rate(FROM_USD).
C11_Triangulation ==
    /\ (Resolving /\ last.update_raised = "none"
        /\ PairKey(FromCode, ToCode) \notin DOMAIN Refreshed
        /\ FromCode # "USD" /\ ToCode # "USD"
        /\ PositiveLeg(FromCode) /\ PositiveLeg(ToCode))
          => /\ last.raised = "none"
             /\ last.rate = Rat(LegRate(FromCode)[1] * LegRate(ToCode)[2],
                                LegRate(FromCode)[2] * LegRate(ToCode)[1])
    /\ (Resolving /\ last.update_raised = "none"
        /\ PairKey(FromCode, ToCode) \notin DOMAIN Refreshed
        /\ FromCode = "USD" /\ PositiveLeg(ToCode))
          => /\ last.raised = "none"
             /\ last.rate = Rat(LegRate(ToCode)[2], LegRate(ToCode)[1])
    /\ (Resolving /\ last.update_raised = "none"
        /\ ToCode = "USD" /\ PositiveLeg(FromCode))
          => /\ last.raised = "none"
             /\ last.rate = LegRate(FromCode)

\* C11 witness: a cross pair resolved from two legs with different rates.
C11_Witness ==
    /\ Resolving
    /\ last.update_raised = "none"
    /\ PairKey(FromCode, ToCode) \notin DOMAIN Refreshed
    /\ FromCode # "USD" /\ ToCode # "USD"
    /\ PositiveLeg(FromCode) /\ PositiveLeg(ToCode)
    /\ LegRate(FromCode) # LegRate(ToCode)
    /\ last.raised = "none"
    /\ last.rate = Rat(4, 1)

\* ------------------------------------------------------------ storage claims
\* The last call ran an update cycle that called save_current_rates.
SavedSnapshot ==
    /\ last.op \in {"run_update", "get_rate"}
    /\ last.update_raised = "none"
    /\ InLog(<<"save_current_rates", SourceStr(last.source)>>)

\* The rates passed to save_current_rates: what the clients returned.
IncomingRates ==
    Update(AsDict(last.clients["coingecko"].rates),
           AsDict(last.clients["exchangerate"].rates))

\* The entries written for the incoming rates.
IncomingEntries ==
    [k \in DOMAIN IncomingRates |->
        [rate |-> IncomingRates[k], updated_at |-> At(last.at),
         source |-> SourceStr(last.source)]]

\* The pairs of the snapshot found before the call.
PriorPairs == StoredPairs(last.pre_rates_file)

\* C12: save_current_rates(rates, source) with a single named source and at
\* least one prior pair writes the prior map overridden by the incoming pairs
\* and the snapshot source "multiple"; otherwise (source "multiple", or no
\* prior pairs) it writes exactly the incoming pairs and the given source.
C12_MergeOrReplace ==
    SavedSnapshot =>
        IF SourceStr(last.source) # "multiple" /\ DOMAIN PriorPairs # {}
        THEN /\ last.update_rates_file.kind = "snapshot"
             /\ last.update_rates_file.pairs = Update(PriorPairs, IncomingEntries)
             /\ last.update_rates_file.source = "multiple"
        ELSE /\ last.update_rates_file.kind = "snapshot"
             /\ last.update_rates_file.pairs = IncomingEntries
             /\ last.update_rates_file.source = SourceStr(last.source)

\* C12 witness: a single-source save kept a prior pair it did not receive.
C12_Witness ==
    /\ SavedSnapshot
    /\ SourceStr(last.source) # "multiple"
    /\ \E k \in DOMAIN PriorPairs :
          /\ k \notin DOMAIN IncomingRates
          /\ k \in DOMAIN last.update_rates_file.pairs
    /\ last.update_rates_file.source = "multiple"

\* C12 witness: a "multiple" save dropped a prior pair it did not receive.
C12_WitnessReplace ==
    /\ SavedSnapshot
    /\ SourceStr(last.source) = "multiple"
    /\ \E k \in DOMAIN PriorPairs : k \notin DOMAIN last.update_rates_file.pairs

\* ----------------------------------------------------------- snapshot claims
\* The codes that match [A-Z]{2,10}: the configured and registered codes.
UpperCodes ==
    RegisteredCurrencies \cup SetOf(CRYPTO_ID_MAP) \cup SetOf(FIAT_CURRENCIES)
        \cup {BASE_CURRENCY}

\* Every key of the file matches ^[A-Z]{2,10}_[A-Z]{2,10}$ and every rate is
\* strictly positive.
WellFormedPairs(file) ==
    \A k \in DOMAIN file.pairs :
        /\ k[1] \in UpperCodes
        /\ k[2] \in UpperCodes
        /\ file.pairs[k].rate[1] > 0

\* The snapshot file before the last call was absent or a valid snapshot.
StartedValid == last.op # "none" /\ last.pre_rates_file.kind \in {"absent", "snapshot"}

\* C15: every update cycle and rate resolution that starts from an absent
\* snapshot or from one whose keys match the pair pattern and whose rates are
\* strictly positive leaves such a snapshot, whatever the providers return.
C15_KeysAndPositiveRates ==
    (StartedValid /\ WellFormedPairs(last.pre_rates_file)) => WellFormedPairs(rates_file)

\* Every key of the file is quoted against the base currency.
BaseQuoted(file) == \A k \in DOMAIN file.pairs : k[2] = BASE_CURRENCY

\* C16: every update cycle and rate resolution that starts from a snapshot
\* whose keys all have the form X_USD leaves such a snapshot: cross pairs and
\* inverse pairs are never written.
C16_OnlyBaseQuoted ==
    (StartedValid /\ BaseQuoted(last.pre_rates_file)) => BaseQuoted(rates_file)

\* Every entry of the file has the field source next to rate and updated_at
\* (which every writer sets).
CompleteEntries(file) ==
    \A k \in DOMAIN file.pairs :
        file.pairs[k].source # NoField

\* C17: every update cycle and rate resolution that starts from a snapshot
\* whose entries carry rate, updated_at and source leaves such a snapshot.
C17_EntriesComplete ==
    (StartedValid /\ CompleteEntries(last.pre_rates_file)) => CompleteEntries(rates_file)

\* The calls that reach a data file through DatabaseManager.
DatabaseManagerCalls == {"load_file", "save_file"}

\* C18: the snapshot file and the history file are read and written by the
\* storage component only: no call reads or writes the snapshot file through
\* DatabaseManager.
C18_StorageOwnsFiles ==
    \A i \in 1..Len(last.log) : last.log[i][1] \notin DatabaseManagerCalls

\* The snapshot file the call found was missing or not JSON.
FoundUnreadable == last.pre_rates_file.kind \in {"absent", "corrupt"}

\* The update cycle of the call ran and storage loaded the snapshot after it.
LoadedAfterUpdate ==
    /\ last.op = "get_rate"
    /\ last.update_raised = "none"
    /\ InLog(<<"load_rates_snapshot", "storage">>)

\* C19: load_current_rates on a missing or non-JSON snapshot file returns
\* exactly {pairs: {}, last_refresh: null, source: null} and does not raise or
\* change the file: a save that loads such a file writes exactly the incoming
\* pairs under the given source, and a cycle that saved nothing and was
\* followed by a load leaves the file as it was found.
C19_LoadNeverRaises ==
    /\ (last.op # "none" /\ FoundUnreadable) =>
            load_current_rates(last.pre_rates_file)
                = [kind |-> "snapshot", pairs |-> EmptyPairs,
                   last_refresh |-> <<>>, source |-> "<None>"]
    /\ (SavedSnapshot /\ FoundUnreadable) =>
            /\ last.update_rates_file.pairs = IncomingEntries
            /\ last.update_rates_file.source = SourceStr(last.source)
    /\ (LoadedAfterUpdate /\ FoundUnreadable /\ ~SavedSnapshot) =>
            /\ last.update_rates_file = last.pre_rates_file
            /\ last.raised = "ApiRequestError"

\* A single-source update found a file that is not JSON and saved.
C19_Witness ==
    /\ SavedSnapshot
    /\ last.op = "run_update"
    /\ last.pre_rates_file.kind = "corrupt"
    /\ last.source = "coingecko"
    /\ last.update_rates_file.source = "coingecko"

\* A resolution found no file, its cycle saved nothing, and the load after it
\* left no file.
C19_WitnessMissing ==
    /\ LoadedAfterUpdate
    /\ ~SavedSnapshot
    /\ last.pre_rates_file.kind = "absent"
    /\ rates_file.kind = "absent"

\* ----------------------------------------------------------- history claims
\* The records the history file held when the call started: those of a list
\* or of the old format, none for a file that is missing, not JSON or of
\* another shape.
PriorHistory ==
    IF last.pre_history_file.kind \in {"list", "dict"}
    THEN last.pre_history_file.records
    ELSE <<>>

\* The records save_historical_record built for a client whose iteration
\* completed: one per pair it returned, in order.
Recorded(c) ==
    IF Completed(c)
    THEN [i \in 1..NumPairs(c) |-> HistoryRecord(last.clients[c].rates[i], c, last.at)]
    ELSE <<>>

\* The records the call had to append, in order.
Appended ==
    IF last.op = "append_history" THEN last.records
    ELSE Recorded(Clients[1]) \o Recorded(Clients[2])

\* C20: after save_historical_record or append_history the history file
\* holds the records it held before, unchanged and in order, followed by
\* exactly the new records, and the count returned is the number of new
\* records; with nothing to append the file is not touched; a history file
\* that is missing, not JSON or of another shape counts as the empty list.
C20_HistoryAppendOnly ==
    last.op # "none" =>
        /\ Appended = <<>> => history_file = last.pre_history_file
        /\ Appended # <<>> =>
                /\ history_file.kind = "list"
                /\ history_file.records = PriorHistory \o Appended
        /\ last.report.history_added = Len(Appended)

\* An update cycle appended records of both sources to a history that already
\* held a record.
C20_Witness ==
    /\ last.op = "run_update"
    /\ PriorHistory # <<>>
    /\ Recorded("coingecko") # <<>>
    /\ Recorded("exchangerate") # <<>>
    /\ Len(history_file.records) = Len(PriorHistory) + Len(Appended)

\* append_history added records to a history in the old format.
C20_WitnessAppend ==
    /\ last.op = "append_history"
    /\ last.pre_history_file.kind = "dict"
    /\ Len(last.records) = 2
    /\ history_file.kind = "list"
    /\ Len(history_file.records) = 3

\* A call with nothing to record left a history file that is not JSON alone.
C20_WitnessEmpty ==
    /\ last.op \in {"append_history", "run_update"}
    /\ last.raised = "none"
    /\ Appended = <<>>
    /\ last.pre_history_file.kind = "corrupt"
    /\ history_file.kind = "corrupt"

\* A history file that is not JSON was replaced by the list of new records.
C20_WitnessMalformed ==
    /\ last.pre_history_file.kind \in {"corrupt", "other"}
    /\ Appended # <<>>
    /\ history_file.records = Appended

\* ------------------------------------------------- concurrent writer claims
\* C13: at every instant the snapshot file holds a complete snapshot (or is
\* not there yet): no reader finds a file that does not parse, whichever
\* operation is writing and however two writers interleave.
C13_SnapshotAlwaysComplete ==
    /\ rates_file.kind \in {"absent", "snapshot"}
    /\ ~load_file(rates_file).raised

\* The writer's update cycle has returned a report with ok = true.
CycleOk(w) ==
    /\ writers[w].op = "run_update"
    /\ writers[w].pc = "done"
    /\ writers[w].raised = "none"
    /\ writers[w].report.ok

BothCyclesOk == \A w \in Writers : CycleOk(w)

\* The snapshot the writer's cycle set out to write: its rates merged into
\* the file as it loaded it.
Intended(w) ==
    save_current_rates(writers[w].loaded, writers[w].all_rates,
                       SourceStr(writers[w].source), now)

\* The snapshot file lacks a pair that the writer's cycle saved.
Lacks(w) == \E k \in DOMAIN writers[w].all_rates : k \notin DOMAIN rates_file.pairs

\* C14: writers are not coordinated: once the cycles of both writers have
\* reported success, the snapshot file is the snapshot one of them built from
\* the file it had loaded (the last rename wins), so that it can lack the
\* pairs the other one saved.
C14_LastRenameWins == BothCyclesOk => \E w \in Writers : rates_file = Intended(w)

\* Both cycles reported success and the snapshot lacks a pair saved by one of
\* them.
C14_Witness == BothCyclesOk /\ \E w \in Writers : Lacks(w)

\* ------------------------------------------------------ update write claims
\* The update cycle of the last call ran to its end.
CycleRan == last.op \in {"run_update", "get_rate"} /\ last.update_raised = "none"

\* The clients the cycle selected.
CycleClients == IF last.op = "get_rate" THEN ClientSet ELSE Selected

\* The positions in the log where the snapshot was written.
SnapshotWrites == {i \in 1..Len(last.log) : last.log[i][1] = "save_current_rates"}

\* The client's fetch was attempted before position i of the log.
AttemptedBefore(c, i) == \E j \in 1..(i - 1) : last.log[j] = <<"fetch_rates", c>>

\* C21: run_update writes the current snapshot at most once per call, only
\* after every selected client was attempted, and exactly when the aggregated
\* rate map is not empty; the report's last_refresh is the last_refresh that
\* write stored, and None when nothing was written.
C21_SnapshotWrittenOnce ==
    CycleRan =>
        /\ Cardinality(SnapshotWrites) <= 1
        /\ \A i \in SnapshotWrites : \A c \in CycleClients : AttemptedBefore(c, i)
        /\ (SnapshotWrites # {}) <=> (DOMAIN IncomingRates # {})
        /\ SnapshotWrites # {} =>
                /\ last.report.last_refresh = last.update_rates_file.last_refresh
                /\ last.report.last_refresh # Null
        /\ SnapshotWrites = {} =>
                /\ last.report.last_refresh = Null
                /\ last.update_rates_file = last.pre_rates_file

\* A cycle over both clients wrote the snapshot once, after both were
\* attempted and one of them had failed.
C21_Witness ==
    /\ CycleRan
    /\ last.op = "run_update"
    /\ last.source = None
    /\ Cardinality(SnapshotWrites) = 1
    /\ Completed("coingecko")
    /\ FetchRaised("exchangerate")
    /\ last.report.last_refresh = At(last.at)

\* A cycle that fetched nothing wrote nothing and reports no last_refresh.
C21_WitnessNoWrite ==
    /\ CycleRan
    /\ last.op = "run_update"
    /\ SnapshotWrites = {}
    /\ last.report.last_refresh = Null
    /\ last.pre_rates_file.kind = "snapshot"

\* ----------------------------------------------------------- request claims
\* The HTTP attempts made so far that failed.
FailedAttempts == {i \in 1..Len(request.outcomes) : request.outcomes[i] # "ok"}

\* _make_request has returned or raised.
RequestOver == request.pc \in {"returned", "raised"}

\* The sleeps that lie between a failed attempt and the next attempt.
SleepsBetween ==
    IF request.pc = "attempting" THEN Len(request.outcomes)
    ELSE IF request.outcomes = <<>> THEN 0
    ELSE Len(request.outcomes) - 1

RequestBounded ==
    /\ Len(request.outcomes) <= MAX_RETRIES
    /\ \A i \in 1..(Len(request.outcomes) - 1) : i \in FailedAttempts
    /\ request.pc = "returned" =>
            /\ request.outcomes[Len(request.outcomes)] = "ok"
            /\ request.returned = Len(request.outcomes)
    /\ request.slept = RETRY_DELAY * SleepsBetween
    /\ request.raised = "ApiRequestError" =>
            Cardinality(FailedAttempts) = MAX_RETRIES

\* C22: _make_request ends after at most MAX_RETRIES HTTP attempts: it
\* returns the response of the first successful attempt and makes no attempt
\* after it, sleeps RETRY_DELAY only between a failed attempt and the next
\* one, and raises ApiRequestError only after MAX_RETRIES failed attempts.
C22_MakeRequestTerminates ==
    /\ []RequestBounded
    /\ (request.pc = "attempting") ~> RequestOver

\* All MAX_RETRIES attempts failed: ApiRequestError after two sleeps.
C22_Witness ==
    /\ request.raised = "ApiRequestError"
    /\ Len(request.outcomes) = MAX_RETRIES
    /\ request.slept = RETRY_DELAY * (MAX_RETRIES - 1)

\* The second attempt succeeded after one sleep.
C22_WitnessRetry ==
    /\ request.pc = "returned"
    /\ request.returned = 2
    /\ request.slept = RETRY_DELAY

\* ExchangeRateApiClient.fetch_rates got a successful provider response.
FetchedFiat ==
    /\ request.pc = "fetched"
    /\ request.client = "exchangerate"
    /\ request.body # <<>>
    /\ request.body[1].result = "success"

\* The raw rate of the currency in the response.
RawRate(currency) ==
    IF currency \in DOMAIN request.body[1].conversion_rates
    THEN request.body[1].conversion_rates[currency]
    ELSE Missing

\* The raw rate is a number greater than 0.
ParsesPositive(raw) == raw.t = "inf" \/ (raw.t = "num" /\ raw.v > 0)

\* 1 / v for such a raw rate.
Inverted(raw) == IF raw.t = "inf" THEN Rat(0, 1) ELSE Rat(1, raw.v)

\* The rates fetch_rates returned.
FetchedRates == AsDict(request.fetched[1].rates)

\* C23: for a successful provider response ExchangeRateApiClient.fetch_rates
\* does not raise; it returns the pair c_BASE with rate 1/v for each
\* configured fiat currency c whose raw rate v is a number greater than 0 and
\* no other pair; and every rate it returns is strictly positive.
C23_FiatRatesInverted ==
    FetchedFiat =>
        /\ ~request.fetched[1].raised
        /\ DOMAIN FetchedRates =
                {PairKey(c, BASE_CURRENCY) : c \in {x \in SetOf(FIAT_CURRENCIES) :
                                                       ParsesPositive(RawRate(x))}}
        /\ \A c \in SetOf(FIAT_CURRENCIES) :
                ParsesPositive(RawRate(c)) =>
                    FetchedRates[PairKey(c, BASE_CURRENCY)] = Inverted(RawRate(c))
        /\ \A k \in DOMAIN FetchedRates : IsPositive(FetchedRates[k])

\* --------------------------------------------------------- scheduler claims
\* The threads of the scheduler that are alive.
AliveThreads == {i \in 1..Len(scheduler.threads) : scheduler.threads[i] # "dead"}

\* The step is a call of start() made while the thread is alive.
StartWhileAlive == scheduler'.starts = scheduler.starts + 1 /\ AliveThreads # {}

\* C24: start() while the worker thread is alive is a no-op: no thread is
\* created and the stop flag is not changed; and whatever start() and stop()
\* calls are made, at most one worker thread of the scheduler is alive.
C24_StartWhileAliveNoOp ==
    /\ [](Cardinality(AliveThreads) <= 1)
    /\ [][StartWhileAlive =>
            /\ scheduler'.threads = scheduler.threads
            /\ scheduler'.stop_event = scheduler.stop_event]_vars

\* start() was called while the thread was alive, after a stop() whose join
\* timed out: one thread is alive and the stop flag is still set.
C24_Witness ==
    /\ scheduler.warnings > 0
    /\ scheduler.stops > 0
    /\ Cardinality(AliveThreads) = 1
    /\ scheduler.stop_event

\* The i-th thread of the scheduler is alive.
Running(i) == i \in AliveThreads

\* C25: once the stop flag is set the worker begins no update cycle (the one
\* in progress may finish), and the worker thread eventually ends.
C25_StopEndsWorker ==
    /\ [][scheduler.stop_event => scheduler'.cycles = scheduler.cycles]_vars
    /\ \A i \in 1..MaxOps : (scheduler.stop_event /\ Running(i)) ~> ~Running(i)

\* stop() was called during a cycle; the cycle was finished and the thread
\* has ended without another one.
C25_Witness ==
    /\ scheduler.stop_event
    /\ scheduler.stops = 1
    /\ scheduler.cycles = 1
    /\ scheduler.threads = <<"dead">>
    /\ history_file.kind = "list"

\* C30: after stop() has returned (and until start() is called again) the
\* snapshot file and the history file are not written.
C30_NoWriteAfterStop ==
    [][scheduler.stopped => (rates_file' = rates_file /\ history_file' = history_file)]_vars

\* ------------------------------------------------------- provenance claims
\* The entry under key k is the one the call found in the snapshot file.
KeptEntry(k) ==
    /\ k \in DOMAIN last.pre_rates_file.pairs
    /\ rates_file.pairs[k] = last.pre_rates_file.pairs[k]

\* The rate under key k follows from the rates the providers returned during
\* the call alone.
ObtainedNow(k) == RateFromSnapshot(IncomingEntries, k[1], k[2]) = <<rates_file.pairs[k].rate>>

\* C26: the updated_at of a snapshot entry is the time its rate was obtained
\* from a provider: after a call every entry is the entry that was there
\* before, rate and updated_at alike, or carries a rate obtained from the
\* providers during the call; a rate read from an older entry is never
\* stamped anew.
C26_StampsFromProviders ==
    last.op \in {"run_update", "get_rate"} =>
        \A k \in DOMAIN rates_file.pairs :
            \/ KeptEntry(k)
            \/ /\ ObtainedNow(k)
               /\ rates_file.pairs[k].updated_at = At(last.at)

\* ---------------------------------------------------- partial failure claims
\* run_update() with no source filter ended with one source failed in its
\* fetch and the other having returned pairs.
PartialFailure ==
    /\ UpdateCall(None)
    /\ last.update_raised = "none"
    /\ \E c \in ClientSet : \E d \in ClientSet \ {c} :
          FetchRaised(c) /\ Completed(d) /\ NumPairs(d) > 0

\* C27: after run_update() with no source filter in which one source fails
\* and the other returns pairs, every pair of the snapshot found before the
\* call that the successful source did not return is still in the snapshot
\* with its previous rate and updated_at.
C27_PartialFailureKeepsPairs ==
    PartialFailure =>
        \A k \in DOMAIN PriorPairs \ DOMAIN IncomingRates :
            /\ k \in DOMAIN StoredPairs(rates_file)
            /\ rates_file.pairs[k].rate = PriorPairs[k].rate
            /\ rates_file.pairs[k].updated_at = PriorPairs[k].updated_at

\* ----------------------------------------------------- failed source claims
\* The sources the report of the last update lists in failed_sources.
FailedSources == SetOf(last.report.failed_sources)

\* The pairs fetched from the sources the report does not list as failed.
PairsOfSucceeded ==
    UNION {DOMAIN AsDict(last.clients[c].rates) : c \in ClientSet \ FailedSources}

\* The pairs fetched only from sources the report lists as failed.
PairsOfFailedOnly ==
    UNION {DOMAIN AsDict(last.clients[c].rates) : c \in FailedSources} \ PairsOfSucceeded

\* C28: in a run_update no pair fetched from a source that ends up listed in
\* failed_sources is written to the snapshot by that run (a pair fetched only
\* from failed sources is in the snapshot afterwards only as the entry that
\* was there before), and updated_pairs counts the pairs of the sources that
\* did not fail; a source may fail while its history is recorded, after its
\* fetch succeeded.
C28_FailedSourceNotWritten ==
    (last.op = "run_update" /\ last.update_raised = "none") =>
        /\ \A k \in PairsOfFailedOnly :
              k \in DOMAIN StoredPairs(rates_file) => KeptEntry(k)
        /\ last.report.updated_pairs = Cardinality(PairsOfSucceeded)

\* ------------------------------------------------------ merging save claims
\* The last call's save_current_rates merged: a single named source, and the
\* snapshot found before the call holds pairs.
MergingSave ==
    /\ SavedSnapshot
    /\ SourceStr(last.source) # "multiple"
    /\ DOMAIN PriorPairs # {}

\* C29: in a merging save_current_rates call every existing pair absent from
\* the incoming rates keeps its rate, updated_at and source, every incoming
\* pair gets updated_at equal to the returned timestamp, and the snapshot's
\* last_refresh equals that timestamp.
C29_MergingSaveFrame ==
    MergingSave =>
        /\ last.report.last_refresh # Null
        /\ \A k \in DOMAIN PriorPairs \ DOMAIN IncomingRates :
              /\ k \in DOMAIN StoredPairs(rates_file)
              /\ rates_file.pairs[k] = PriorPairs[k]
        /\ \A k \in DOMAIN IncomingRates :
              /\ k \in DOMAIN StoredPairs(rates_file)
              /\ rates_file.pairs[k].updated_at = last.report.last_refresh
        /\ rates_file.last_refresh = last.report.last_refresh

\* C29 witness: a merging save left another source's older entry beside the
\* entry it stamped with the time of the call.
C29_Witness ==
    /\ MergingSave
    /\ \E k \in DOMAIN PriorPairs \ DOMAIN IncomingRates :
          /\ PriorPairs[k].source \notin {SourceStr(last.source), NoField}
          /\ PriorPairs[k].updated_at # At(last.at)
          /\ rates_file.pairs[k] = PriorPairs[k]
    /\ \E k \in DOMAIN IncomingRates :
          rates_file.pairs[k].updated_at = At(last.at)

\* ------------------------------------------------- scheduler running claims
\* start() has returned and stop() has not been called since.
Started == scheduler.starts > 0 /\ ~scheduler.stopped /\ ~scheduler.joining

\* C31: after any start() has returned, and until the next stop() is called,
\* the scheduler is running: a worker thread is alive and the stop flag it
\* tests before every cycle is clear, so it goes on performing cycles.
C31_RunningAfterStart ==
    Started => (AliveThreads # {} /\ ~scheduler.stop_event)

\* C32: an exception raised by an update cycle never ends the worker loop: it
\* is caught and counted as logged while the thread goes on to its wait, a
\* thread ends only after a stop was requested, and after a failed cycle the
\* next cycle runs unless stop is requested.
C32_CycleErrorKeepsWorker ==
    /\ [][scheduler'.errors > scheduler.errors =>
            \E i \in AliveThreads :
                scheduler.threads[i] = "cycle" /\ scheduler'.threads[i] = "wait"]_vars
    /\ [](\A i \in 1..Len(scheduler.threads) :
            scheduler.threads[i] = "dead" => scheduler.stops > 0)
    /\ \A i \in 1..MaxOps :
          (/\ Running(i) /\ scheduler.threads[i] = "wait"
           /\ scheduler.errors > 0 /\ scheduler.cycles < MaxCycles)
            ~> (scheduler.stop_event \/ (Running(i) /\ scheduler.threads[i] = "cycle"))

\* C32 witness: a cycle raised, no stop was requested, and the same thread is
\* in its next cycle.
C32_Witness ==
    /\ scheduler.errors > 0
    /\ scheduler.stops = 0
    /\ scheduler.cycles = 2
    /\ scheduler.threads = <<"cycle">>

\* ------------------------------------------------------------ wallet claims
\* C33: after any sequence of deposit, buy and sell commands, successful or
\* refused, every wallet balance stored in the portfolios file is >= 0.
C33_BalancesNotNegative ==
    \A i \in 1..Len(cli.portfolios_file.portfolios) :
        \A c \in DOMAIN cli.portfolios_file.portfolios[i].wallets :
            FLeq(Zero, cli.portfolios_file.portfolios[i].wallets[c])

\* ------------------------------------------------------------- trade claims
\* The wallets of the first portfolio the file holds for the user.
WalletsOf(pfile, user_id) ==
    pfile.portfolios[find_portfolio(pfile.portfolios, user_id)].wallets

BalanceOf(wallets, c) == IF c \in DOMAIN wallets THEN wallets[c] ELSE Zero

\* The step is a command of the given kind that reported success.
Succeeded(command) ==
    /\ cli'.commands = cli.commands + 1
    /\ cli'.last.command = command
    /\ cli'.last.ok

\* The step leaves the users file and every portfolio but the current
\* user's as they were.
OthersUnchanged ==
    /\ cli'.users_file = cli.users_file
    /\ Len(cli'.portfolios_file.portfolios) = Len(cli.portfolios_file.portfolios)
    /\ \A i \in 1..Len(cli.portfolios_file.portfolios) :
          i # find_portfolio(cli.portfolios_file.portfolios, cli.current_user)
            => cli'.portfolios_file.portfolios[i] = cli.portfolios_file.portfolios[i]

\* The step changed the stored wallets of the current user by usd in USD and
\* by held in the currency traded, and nothing else.
Traded_By(usd, held) ==
    LET pre == WalletsOf(cli.portfolios_file, cli.current_user)
        post == WalletsOf(cli'.portfolios_file, cli.current_user)
        c == cli'.last.currency
    IN  /\ DOMAIN post = DOMAIN pre \cup {c}
        /\ post["USD"] = FAdd(pre["USD"], usd)
        /\ post[c] = FAdd(BalanceOf(pre, c), held)
        /\ \A d \in DOMAIN pre \ {"USD", c} : post[d] = pre[d]
        /\ OthersUnchanged

C34_WitnessSell ==
    /\ cli.last.command = "sell" /\ cli.last.ok
    /\ cli.last.currency = "BTC"
    /\ WalletsOf(cli.portfolios_file, cli.current_user) =
          [c \in {"USD", "BTC"} |-> IF c = "USD" THEN Rat(4, 1) ELSE Zero]

\* The step is a buy or a sell that was refused or failed.
FailedTrade ==
    /\ cli'.commands = cli.commands + 1
    /\ cli'.last.command \in {"buy", "sell"}
    /\ ~cli'.last.ok

C35_WitnessCutShort ==
    /\ cli.last.command = "buy" /\ cli.last.msg = "save_failed"
    /\ cli.portfolios_file.kind = "corrupt"

\* ----------------------------------------------------------- session claims
\* The step is one of the commands that need a login, typed while no user
\* is logged in.
TypedLoggedOut ==
    /\ cli.current_user = Null
    /\ cli'.commands = cli.commands + 1
    /\ cli'.last.command \in {"deposit", "buy", "sell", "show-portfolio"}

\* C36: while no user is logged in, each of the commands deposit, buy, sell
\* and show-portfolio returns the "login first" message and changes neither
\* the portfolios file, nor the users file, nor the rate cache.
C36_LoginFirst ==
    [][TypedLoggedOut =>
            /\ cli'.last.msg = "login_first"
            /\ cli'.portfolios_file = cli.portfolios_file
            /\ cli'.users_file = cli.users_file
            /\ rates_file' = rates_file
            /\ history_file' = history_file]_vars

\* C36 witness: a buy typed before any login, with a funded portfolio on
\* disk, was answered "login first".
C36_Witness ==
    /\ cli.current_user = Null
    /\ cli.last.command = "buy"
    /\ cli.last.msg = "login_first"
    /\ cli.portfolios_file = Traded

\* The stored users whose name is the one typed and whose salted hash is the
\* hash of the password typed.
Matching(ufile, typed) ==
    {u \in {load_users(ufile).users[i] : i \in 1..Len(load_users(ufile).users)} :
        /\ u.username = typed.username
        /\ u.hashed_password = MakeHash(typed.password, u.salt)}

\* C37: current_user changes only by a successful login, and then to the id
\* of the stored user whose salted hash matches the password given; a failed
\* login, a register and every other command leave it as it was.
C37_OnlyLoginSetsUser ==
    [][cli'.current_user # cli.current_user =>
            /\ cli'.last.command = "login"
            /\ cli'.last.ok
            /\ \E u \in Matching(cli.users_file, cli'.last) :
                    cli'.current_user = At(u.user_id)]_vars

\* C37 witness: a login with the right password made its user the current
\* one.
C37_Witness ==
    /\ cli.last.command = "login"
    /\ cli.last.ok
    /\ cli.current_user = At(1)
    /\ cli.commands = 1

\* C37 witness: a login with a wrong password after a successful one left the
\* current user.
C37_WitnessFailed ==
    /\ cli.last.command = "login"
    /\ ~cli.last.ok
    /\ cli.current_user = At(1)

\* C38: no two users stored in the users file have the same username.
C38_UniqueUsernames ==
    \A i, j \in 1..Len(load_users(cli.users_file).users) :
        i # j => load_users(cli.users_file).users[i].username
                    # load_users(cli.users_file).users[j].username

\* A register of a name that a stored user has was refused as taken, and the
\* users file is the one found.
C38_TakenRefused ==
    [][(/\ cli'.last.command = "register"
        /\ cli'.commands = cli.commands + 1
        /\ Taken(load_users(cli.users_file).users, cli'.last.username))
            => /\ ~cli'.last.ok
               /\ cli'.last.msg = "taken"
               /\ cli'.users_file = cli.users_file
               /\ cli'.portfolios_file = cli.portfolios_file]_vars

\* ------------------------------------------------------------ signup claims
\* The id of the user that the register of this step stored: the last of the
\* users file it left.
NewUserId ==
    load_users(cli'.users_file).users[Len(load_users(cli'.users_file).users)].user_id

\* The id stored by the register of this step is the id of no user stored
\* before it.
NewIdUnused ==
    [][Succeeded("register") =>
            \A i \in 1..Len(load_users(cli.users_file).users) :
                load_users(cli.users_file).users[i].user_id # NewUserId]_vars

\* C39: right after a register that reports success, the id of the new user
\* is the id of no user stored before, and the portfolios file holds for it
\* a portfolio of exactly one USD wallet with balance 0.
C39_NewUserStartsEmpty ==
    [][Succeeded("register") =>
            /\ \A i \in 1..Len(load_users(cli.users_file).users) :
                    load_users(cli.users_file).users[i].user_id # NewUserId
            /\ find_portfolio(cli'.portfolios_file.portfolios, At(NewUserId)) # 0
            /\ WalletsOf(cli'.portfolios_file, At(NewUserId)) = [USD |-> Zero]]_vars

====
